---- MODULE Spec2Model ----
(***************************************************************************)
(* Clinic voice agent: the session-aware tool-orchestration engine.        *)
(*                                                                         *)
(*   tools/otp.py         patient directory, OTP issue / verify            *)
(*   tools/scheduling.py  mock appointment table and its tools             *)
(*   tools/context.py     the call-scoped current-session indicator        *)
(*   agents/factory.py    AgentFactory: tool dispatch and the turn loop    *)
(*   api/routes.py        the /chat request handler                        *)
(*   sessions/*.py        SessionManager and the Cosmos session store      *)
(*                                                                         *)
(* Text values on which the code computes (MRNs, phone numbers, OTP codes) *)
(* are sequences of one-character strings; opaque text (names, session     *)
(* ids, doctor ids, times) is an atomic string; an ISO date YYYY-MM-DD is  *)
(* the number YYYYMMDD, whose order is the order of the date strings.      *)
(***************************************************************************)
EXTENDS Integers, Sequences, FiniteSets, TLC

\* ------------------------------------------------------------------------
\* Bounds of the model (not program constants)
\* ------------------------------------------------------------------------

\* runs (turns) started in one behaviour
MaxRuns == 2

\* tool calls the remote model chooses freely in one run
MaxCalls == 2

\* function calls in one model response
MaxBatch == 2

\* advances of the clock in one behaviour of the session store
MaxTicks == 2

\* entries of one session's conversation_history in the session store
MaxHistory == 2

\* ------------------------------------------------------------------------
\* Program constants
\* ------------------------------------------------------------------------

MAX_TOOL_ITERATIONS == 30

\* CosmosSessionStore.DEFAULT_TTL, in seconds
DEFAULT_TTL == 86400

\* ------------------------------------------------------------------------
\* Values
\* ------------------------------------------------------------------------

\* Python None for an optional text value; the empty string is falsy as well
NoText == ""

\* Python None for an optional identifier or record
None == <<>>

Tasks == {"t1"}

Sessions == {"s1", "s2"}

Messages == {"hello"}

TalkMessages == {"hello", "again"}

\* two requests in flight at once, each in a task of its own
ConcurrentTasks == {"t1", "t2"}

MRN5001 == <<"M", "R", "N", "-", "5", "0", "0", "1">>

MRN5050 == <<"M", "R", "N", "-", "5", "0", "5", "0">>

MRN5002 == <<"M", "R", "N", "-", "5", "0", "0", "2">>

MRN5003 == <<"M", "R", "N", "-", "5", "0", "0", "3">>

\* an MRN that is in no directory entry
MRN0000 == <<"M", "R", "N", "-", "0", "0", "0", "0">>

\* MRN-5001 as a caller may type it
mrn5001 == <<"m", "r", "n", "-", "5", "0", "0", "1">>

PHONE5001 == <<"+", "9", "7", "1", "5", "0", "1", "2", "3", "4", "5", "6", "7">>

PHONE5050 == <<"+", "9", "7", "1", "5", "4", "4", "8", "4", "2", "8", "0", "5">>

PHONE5002 == <<"+", "9", "7", "1", "5", "0", "9", "8", "7", "6", "5", "4", "3">>

PHONE5003 == <<"+", "9", "7", "1", "5", "0", "7", "6", "5", "4", "3", "2", "1">>

\* the OTP send_otp issues
OTP == <<"1", "2", "3", "4", "5", "6">>

\* the same code as a caller may dictate it, with surrounding blanks
OTP_PADDED == <<" ", "1", "2", "3", "4", "5", "6", " ">>

WRONG_OTP == <<"0", "0", "0", "0", "0", "0">>

\* ------------------------------------------------------------------------
\* Python dict and str helpers
\* ------------------------------------------------------------------------

\* d[k] = v
Put(d, k, v) ==
    [x \in (DOMAIN d) \cup {k} |-> IF x = k THEN v ELSE d[x]]

\* del d[k]
Del(d, k) ==
    [x \in (DOMAIN d) \ {k} |-> d[x]]

EmptyDict == [x \in {} |-> None]

IsSpace(c) == c \in {" ", "\t", "\n"}

RECURSIVE lstrip(_)
lstrip(s) ==
    IF s # <<>> /\ IsSpace(Head(s)) THEN lstrip(Tail(s)) ELSE s

RECURSIVE rstrip(_)
rstrip(s) ==
    IF s # <<>> /\ IsSpace(s[Len(s)]) THEN rstrip(SubSeq(s, 1, Len(s) - 1)) ELSE s

\* str.strip()
strip(s) == rstrip(lstrip(s))

UpperChar(c) ==
    CASE c = "m" -> "M"
      [] c = "r" -> "R"
      [] c = "n" -> "N"
      [] OTHER -> c

\* str.upper()
upper(s) == [i \in DOMAIN s |-> UpperChar(s[i])]

\* s.startswith(p)
startswith(s, p) == Len(s) >= Len(p) /\ SubSeq(s, 1, Len(p)) = p

\* s[:n] for n >= 0
Prefix(s, n) == SubSeq(s, 1, IF n < Len(s) THEN n ELSE Len(s))

\* s[-n:] for n > 0
Suffix(s, n) == SubSeq(s, IF Len(s) > n THEN Len(s) - n + 1 ELSE 1, Len(s))

\* a mask that shows the last four characters
MaskPhone_last_four(phone) ==
    Prefix(phone, 5) \o <<"*", "*", "*", "*">> \o Suffix(phone, 4)

\* phone[:5] + "****" + phone[-3:]
MaskPhone(phone) == Prefix(phone, 5) \o <<"*", "*", "*", "*">> \o Suffix(phone, 3)

\* ------------------------------------------------------------------------
\* tools/otp.py: reference data
\* ------------------------------------------------------------------------

_PATIENTS ==
    (MRN5001 :> [mrn |-> MRN5001, name |-> "Khalid Al-Rashid",
                 phone |-> PHONE5001, dob |-> 19850312])
    @@ (MRN5050 :> [mrn |-> MRN5050, name |-> "Hamza El-Ghoujdami",
                    phone |-> PHONE5050, dob |-> 19930528])
    @@ (MRN5002 :> [mrn |-> MRN5002, name |-> "Mariam Abdullah",
                    phone |-> PHONE5002, dob |-> 19900722])
    @@ (MRN5003 :> [mrn |-> MRN5003, name |-> "Hassan Youssef",
                    phone |-> PHONE5003, dob |-> 19781105])

\* phone -> MRN
_PHONE_INDEX ==
    [ph \in {_PATIENTS[m].phone : m \in DOMAIN _PATIENTS} |->
        CHOOSE m \in DOMAIN _PATIENTS : _PATIENTS[m].phone = ph]

\* ------------------------------------------------------------------------
\* tools/scheduling.py: reference data
\* ------------------------------------------------------------------------

_DOCTORS ==
    ("DR001" :> [name |-> "Dr. Sarah Al-Mansoori", specialty |-> "Cardiology"])
    @@ ("DR002" :> [name |-> "Dr. Ahmed Khalil", specialty |-> "Orthopedics"])
    @@ ("DR003" :> [name |-> "Dr. Fatima Hassan", specialty |-> "Dermatology"])
    @@ ("DR004" :> [name |-> "Dr. Omar Nasser", specialty |-> "Pediatrics"])
    @@ ("DR005" :> [name |-> "Dr. Layla Ibrahim", specialty |-> "General Medicine"])
    @@ ("DR006" :> [name |-> "Dr. Yousef Qasim", specialty |-> "Cardiology"])

\* the appointment table as the module is loaded; a Python dict keeps
\* insertion order, so the table is the sequence of its values
InitialAppointments ==
    << [id |-> "APT-1001", patient_mrn |-> MRN5050, doctor_id |-> "DR001",
        doctor_name |-> "Dr. Sarah Al-Mansoori", specialty |-> "Cardiology",
        date |-> 20260215, time |-> "10:00", status |-> "confirmed"],
       [id |-> "APT-1002", patient_mrn |-> MRN5050, doctor_id |-> "DR005",
        doctor_name |-> "Dr. Layla Ibrahim", specialty |-> "General Medicine",
        date |-> 20260220, time |-> "14:30", status |-> "confirmed"] >>

\* ids f"APT-{uuid.uuid4().hex[:6].upper()}" can take (two of them)
GenAptIds == {"APT-A3F9C2", "APT-7B01DE"}

\* ------------------------------------------------------------------------
\* Module-level state of the tools, as one record
\*   otps      _ACTIVE_OTPS    mrn -> code
\*   verified  _VERIFIED       session_id -> set of MRNs
\*   last      _LAST_VERIFIED  session_id -> patient record
\*   apts      _APPOINTMENTS   the appointment table
\* A tool takes the record, the value of get_session_context() and its
\* keyword arguments, and gives the record after the call and the text it
\* returns ([w |-> ..., out |-> ...]).
\* ------------------------------------------------------------------------

\* dict.get(key) on the appointment table
AptGet(apts, id) ==
    IF \E i \in DOMAIN apts : apts[i].id = id
    THEN apts[CHOOSE i \in DOMAIN apts : apts[i].id = id]
    ELSE None

\* _APPOINTMENTS[id] = apt: an existing key keeps its place
AptPut(apts, id, apt) ==
    IF \E i \in DOMAIN apts : apts[i].id = id
    THEN [i \in DOMAIN apts |-> IF apts[i].id = id THEN apt ELSE apts[i]]
    ELSE Append(apts, apt)

\* ------------------------------------------------------------------------
\* tools/otp.py
\* ------------------------------------------------------------------------

get_patient_data(mrn) ==
    IF mrn \in DOMAIN _PATIENTS THEN _PATIENTS[mrn] ELSE None

\* lookup_patient leaving a code outstanding for the patient it finds
lookup_patient_issues_code(w, sid, a) ==
    LET patient ==
            IF startswith(upper(a.identifier), <<"M", "R", "N">>)
            THEN get_patient_data(upper(a.identifier))
            ELSE IF a.identifier \in DOMAIN _PHONE_INDEX
                 THEN get_patient_data(_PHONE_INDEX[a.identifier])
                 ELSE None
    IN  IF patient = None
        THEN [w |-> w, out |-> [kind |-> "patient_not_found", identifier |-> a.identifier]]
        ELSE [w |-> [w EXCEPT !.otps = Put(w.otps, patient.mrn, OTP)],
              out |-> [kind |-> "patient_found", name |-> patient.name,
                       mrn |-> patient.mrn, phone_masked |-> MaskPhone(patient.phone),
                       dob |-> patient.dob]]

lookup_patient(w, sid, a) ==
    LET patient ==
            IF startswith(upper(a.identifier), <<"M", "R", "N">>)
            THEN get_patient_data(upper(a.identifier))
            ELSE IF a.identifier \in DOMAIN _PHONE_INDEX
                 THEN get_patient_data(_PHONE_INDEX[a.identifier])
                 ELSE None
    IN  IF patient = None
        THEN [w |-> w, out |-> [kind |-> "patient_not_found", identifier |-> a.identifier]]
        ELSE [w |-> w,
              out |-> [kind |-> "patient_found", name |-> patient.name,
                       mrn |-> patient.mrn, phone_masked |-> MaskPhone(patient.phone),
                       dob |-> patient.dob]]

\* send_otp storing the code before it looks the patient up
send_otp_records_first(w, sid, a) ==
    LET patient == get_patient_data(a.patient_mrn)
        stored == [w EXCEPT !.otps = Put(w.otps, a.patient_mrn, OTP)]
    IN  IF patient = None
        THEN [w |-> stored, out |-> [kind |-> "patient_not_found", mrn |-> a.patient_mrn]]
        ELSE [w |-> stored,
              out |-> [kind |-> "otp_sent", phone_masked |-> MaskPhone(patient.phone),
                       hint |-> OTP]]

send_otp(w, sid, a) ==
    LET patient == get_patient_data(a.patient_mrn)
    IN  IF patient = None
        THEN [w |-> w, out |-> [kind |-> "patient_not_found", mrn |-> a.patient_mrn]]
        ELSE [w |-> [w EXCEPT !.otps = Put(w.otps, a.patient_mrn, OTP)],
              out |-> [kind |-> "otp_sent", phone_masked |-> MaskPhone(patient.phone),
                       hint |-> OTP]]

\* verify_otp recording the patient under every session
verify_otp_every_session(w, sid, a) ==
    IF a.patient_mrn \notin DOMAIN w.otps
    THEN [w |-> w, out |-> [kind |-> "no_active_otp", mrn |-> a.patient_mrn]]
    ELSE IF strip(a.otp_code) = w.otps[a.patient_mrn]
         THEN LET patient == get_patient_data(a.patient_mrn)
              IN  [w |-> [w EXCEPT
                            !.verified =
                                [s \in Sessions |->
                                    (IF s \in DOMAIN w.verified
                                     THEN w.verified[s] ELSE {})
                                    \cup {a.patient_mrn}],
                            !.last = IF sid # NoText
                                     THEN Put(w.last, sid, patient) ELSE w.last,
                            !.otps = Del(w.otps, a.patient_mrn)],
                   out |-> [kind |-> "verified", mrn |-> a.patient_mrn,
                            name |-> patient.name]]
         ELSE [w |-> w, out |-> [kind |-> "invalid_otp"]]

\* verify_otp without `del _ACTIVE_OTPS[patient_mrn]`
verify_otp_keeps_code(w, sid, a) ==
    IF a.patient_mrn \notin DOMAIN w.otps
    THEN [w |-> w, out |-> [kind |-> "no_active_otp", mrn |-> a.patient_mrn]]
    ELSE IF strip(a.otp_code) = w.otps[a.patient_mrn]
         THEN LET patient == get_patient_data(a.patient_mrn)
              IN  [w |-> IF sid # NoText
                         THEN [w EXCEPT
                                 !.verified =
                                     Put(w.verified, sid,
                                         (IF sid \in DOMAIN w.verified
                                          THEN w.verified[sid] ELSE {})
                                         \cup {a.patient_mrn}),
                                 !.last = Put(w.last, sid, patient)]
                         ELSE w,
                   out |-> [kind |-> "verified", mrn |-> a.patient_mrn,
                            name |-> patient.name]]
         ELSE [w |-> w, out |-> [kind |-> "invalid_otp"]]

\* verify_otp comparing the code as it was supplied
verify_otp_unstripped(w, sid, a) ==
    IF a.patient_mrn \notin DOMAIN w.otps
    THEN [w |-> w, out |-> [kind |-> "no_active_otp", mrn |-> a.patient_mrn]]
    ELSE IF a.otp_code = w.otps[a.patient_mrn]
         THEN LET patient == get_patient_data(a.patient_mrn)
                  marked ==
                      IF sid # NoText
                      THEN [w EXCEPT
                              !.verified =
                                  Put(w.verified, sid,
                                      (IF sid \in DOMAIN w.verified
                                       THEN w.verified[sid] ELSE {})
                                      \cup {a.patient_mrn}),
                              !.last = Put(w.last, sid, patient)]
                      ELSE w
              IN  [w |-> [marked EXCEPT !.otps = Del(w.otps, a.patient_mrn)],
                   out |-> [kind |-> "verified", mrn |-> a.patient_mrn,
                            name |-> patient.name]]
         ELSE [w |-> w, out |-> [kind |-> "invalid_otp"]]

verify_otp(w, sid, a) ==
    IF a.patient_mrn \notin DOMAIN w.otps
    THEN [w |-> w, out |-> [kind |-> "no_active_otp", mrn |-> a.patient_mrn]]
    ELSE IF strip(a.otp_code) = w.otps[a.patient_mrn]
         THEN LET patient == get_patient_data(a.patient_mrn)
                  marked ==
                      IF sid # NoText
                      THEN [w EXCEPT
                              !.verified =
                                  Put(w.verified, sid,
                                      (IF sid \in DOMAIN w.verified
                                       THEN w.verified[sid] ELSE {})
                                      \cup {a.patient_mrn}),
                              !.last = Put(w.last, sid, patient)]
                      ELSE w
              IN  [w |-> [marked EXCEPT !.otps = Del(w.otps, a.patient_mrn)],
                   out |-> [kind |-> "verified", mrn |-> a.patient_mrn,
                            name |-> patient.name]]
         ELSE [w |-> w, out |-> [kind |-> "invalid_otp"]]

\* is_patient_verified(mrn, session_id), session_id falling back on the context
is_patient_verified(w, sid, mrn, session_id) ==
    LET s == IF session_id # NoText THEN session_id ELSE sid
    IN  IF s = NoText
        THEN FALSE
        ELSE s \in DOMAIN w.verified /\ mrn \in w.verified[s]

\* ------------------------------------------------------------------------
\* tools/scheduling.py
\* ------------------------------------------------------------------------

\* the days of month m of year y
DaysInMonth(y, m) ==
    IF m \in {4, 6, 9, 11}
    THEN 30
    ELSE IF m = 2
         THEN IF (y % 4 = 0 /\ y % 100 # 0) \/ y % 400 = 0 THEN 29 ELSE 28
         ELSE 31

\* datetime.strptime(date, "%Y-%m-%d") accepts the date
strptime_ok(date) ==
    LET y == date \div 10000
        m == (date \div 100) % 100
        d == date % 100
    IN  /\ y \in 1..9999
        /\ m \in 1..12
        /\ d \in 1..DaysInMonth(y, m)

\* the hours _generate_slots offers
SlotTimes == <<"09:00", "10:00", "11:00", "14:00", "15:00", "16:00">>

_generate_slots(apts, doctor_id, date) ==
    LET free(time_str) ==
            ~\E i \in DOMAIN apts :
                /\ apts[i].status = "confirmed"
                /\ apts[i].doctor_id = doctor_id
                /\ apts[i].date = date
                /\ apts[i].time = time_str
    IN  SelectSeq(SlotTimes, free)

\* a handler that raises gives out |-> [kind |-> "raised", ...]
search_available_slots(w, sid, a) ==
    IF a.doctor_id \notin DOMAIN _DOCTORS
    THEN [w |-> w, out |-> [kind |-> "doctor_not_found", doctor_id |-> a.doctor_id]]
    ELSE IF ~strptime_ok(a.date)
         THEN [w |-> w, out |-> [kind |-> "raised",
                                 message |-> <<"ValueError", a.date>>]]
         ELSE LET slots == _generate_slots(w.apts, a.doctor_id, a.date)
              IN  IF slots = <<>>
                  THEN [w |-> w, out |-> [kind |-> "no_slots", date |-> a.date]]
                  ELSE [w |-> w, out |-> [kind |-> "slots", date |-> a.date,
                                          times |-> slots]]

\* rnd is the id uuid4 yields for this call
book_appointment(w, sid, a, rnd) ==
    IF a.doctor_id \notin DOMAIN _DOCTORS
    THEN [w |-> w, out |-> [kind |-> "doctor_not_found", doctor_id |-> a.doctor_id]]
    ELSE LET apt == [id |-> rnd, patient_mrn |-> a.patient_mrn,
                     doctor_id |-> a.doctor_id,
                     doctor_name |-> _DOCTORS[a.doctor_id].name,
                     specialty |-> _DOCTORS[a.doctor_id].specialty,
                     date |-> a.date, time |-> a.time, status |-> "confirmed"]
         IN  [w |-> [w EXCEPT !.apts = AptPut(w.apts, rnd, apt)],
              out |-> [kind |-> "booked", id |-> rnd, date |-> a.date, time |-> a.time]]

reschedule_appointment(w, sid, a) ==
    LET apt == AptGet(w.apts, a.appointment_id)
    IN  IF apt = None
        THEN [w |-> w, out |-> [kind |-> "appointment_not_found", id |-> a.appointment_id]]
        ELSE IF apt.status = "cancelled"
             THEN [w |-> w, out |-> [kind |-> "cannot_reschedule_cancelled",
                                     id |-> a.appointment_id]]
             ELSE [w |-> [w EXCEPT !.apts =
                             AptPut(w.apts, a.appointment_id,
                                    [apt EXCEPT !.date = a.new_date, !.time = a.new_time])],
                   out |-> [kind |-> "rescheduled", id |-> a.appointment_id,
                            from_date |-> apt.date, from_time |-> apt.time,
                            to_date |-> a.new_date, to_time |-> a.new_time]]

cancel_appointment(w, sid, a) ==
    LET apt == AptGet(w.apts, a.appointment_id)
    IN  IF apt = None
        THEN [w |-> w, out |-> [kind |-> "appointment_not_found", id |-> a.appointment_id]]
        ELSE IF apt.status = "cancelled"
             THEN [w |-> w, out |-> [kind |-> "already_cancelled", id |-> a.appointment_id]]
             ELSE [w |-> [w EXCEPT !.apts =
                             AptPut(w.apts, a.appointment_id,
                                    [apt EXCEPT !.status = "cancelled"])],
                   out |-> [kind |-> "cancelled", id |-> a.appointment_id,
                            date |-> apt.date, time |-> apt.time]]

\* sorted(xs, key=lambda x: x["date"]): stable insertion sort
RECURSIVE SortedByDate(_)
SortedByDate(xs) ==
    IF xs = <<>>
    THEN <<>>
    ELSE LET rest == SortedByDate(SubSeq(xs, 1, Len(xs) - 1))
             x == xs[Len(xs)]
             k == Cardinality({i \in DOMAIN rest : rest[i].date <= x.date})
         IN  SubSeq(rest, 1, k) \o <<x>> \o SubSeq(rest, k + 1, Len(rest))

\* [a for a in xs if a["patient_mrn"] == mrn]
RECURSIVE AptsOf(_, _)
AptsOf(xs, mrn) ==
    IF xs = <<>>
    THEN <<>>
    ELSE (IF Head(xs).patient_mrn = mrn THEN <<Head(xs)>> ELSE <<>>)
         \o AptsOf(Tail(xs), mrn)

get_appointment_history(w, sid, a) ==
    LET matches == AptsOf(w.apts, a.patient_mrn)
        sorted == SortedByDate(matches)
    IN  IF matches = <<>>
        THEN [w |-> w, out |-> [kind |-> "no_appointments", mrn |-> a.patient_mrn]]
        ELSE [w |-> w,
              out |-> [kind |-> "history", mrn |-> a.patient_mrn,
                       lines |-> [i \in DOMAIN sorted |->
                                     [status |-> sorted[i].status, id |-> sorted[i].id,
                                      doctor_name |-> sorted[i].doctor_name,
                                      date |-> sorted[i].date, time |-> sorted[i].time]]]]

\* ------------------------------------------------------------------------
\* State
\* ------------------------------------------------------------------------

VARIABLES
    \* tools/otp.py and tools/scheduling.py module state
    _ACTIVE_OTPS, _VERIFIED, _LAST_VERIFIED, _APPOINTMENTS,
    \* AgentFactory._sessions: session_id -> [conv_id, last_response_id]
    _sessions,
    \* SessionManager._workflows: session_id -> [conversation_id]
    _workflows,
    \* the Cosmos container: session_id -> session document
    container,
    \* the remote service: numbers of conversations and responses issued
    conversations_created, responses_created,
    \* the remote service: conversation id -> the messages put into it
    conversations,
    \* which program runs: "http" (main.py, routes.py) or "direct"
    \* (cli.py --local and the direct tests call AgentFactory.run)
    entry,
    \* runs started so far
    runs,
    \* per task: where it is suspended
    pc,
    \* per task: tools/context.py _current_session_id in the task's context
    _current_session_id,
    \* per task: the locals of AgentFactory.run and _process_function_calls
    \*   session, message, conv_id, last_response_id, response,
    \*   outputs, tools_called, iterations
    local,
    \* per task: what run() returned or raised last
    result,
    \* per task, seen from the remote service: the number of responses.create
    \* requests of the current run, and the one in flight
    requests, sent,
    \* per task: the names _execute_tool was called with in the current run
    dispatched,
    \* history: for each outstanding code, the session of the run whose
    \* send_otp call issued it
    issued_in,
    \* datetime.now(timezone.utc), in seconds
    now,
    \* what the last call of the session manager returned to its caller
    returned,
    \* history: the call of the session manager before the last
    previous,
    \* SessionManager._memory, the FoundryMemoryStore: _client, _ready
    _memory,
    \* the remote memory store: for each scope, the memories it keeps
    memory_stores,
    \* tools/handoff.py _PENDING_TRANSFERS: transfer id -> transfer record
    _PENDING_TRANSFERS

toolVars == <<_ACTIVE_OTPS, _VERIFIED, _LAST_VERIFIED, _APPOINTMENTS>>

storeVars == <<_workflows, container>>

remoteVars == <<conversations_created, responses_created, conversations>>

wireVars == <<requests, sent>>

memoryVars == <<_memory, memory_stores>>

adminVars == <<now, returned, previous, memoryVars, _PENDING_TRANSFERS>>

vars == <<toolVars, _sessions, storeVars, remoteVars, entry, adminVars, runs, pc,
          _current_session_id, local, result, wireVars, dispatched, issued_in>>

\* the tools' module state as the record the tool operators take
World ==
    [otps |-> _ACTIVE_OTPS, verified |-> _VERIFIED,
     last |-> _LAST_VERIFIED, apts |-> _APPOINTMENTS]

SetWorld(w) ==
    /\ _ACTIVE_OTPS' = w.otps
    /\ _VERIFIED' = w.verified
    /\ _LAST_VERIFIED' = w.last
    /\ _APPOINTMENTS' = w.apts

\* tools/context.py
get_session_context(t) == _current_session_id[t]

\* ------------------------------------------------------------------------
\* agents/factory.py: tool dispatch
\* ------------------------------------------------------------------------

\* names registered by _setup_tools
_tool_lookup ==
    {"lookup_patient", "send_otp", "verify_otp",
     "search_doctors", "search_available_slots", "book_appointment",
     "reschedule_appointment", "cancel_appointment", "get_appointment_history",
     "add_to_waitlist", "send_sms_confirmation",
     "initiate_human_transfer", "get_transfer_status", "get_queue_status"}

\* the parameters of the handlers (none has a default)
ToolParams(name) ==
    CASE name = "lookup_patient" -> {"identifier"}
      [] name = "send_otp" -> {"patient_mrn"}
      [] name = "verify_otp" -> {"patient_mrn", "otp_code"}
      [] name = "search_available_slots" -> {"doctor_id", "date"}
      [] name = "book_appointment" -> {"patient_mrn", "doctor_id", "date", "time"}
      [] name = "reschedule_appointment" -> {"appointment_id", "new_date", "new_time"}
      [] name = "cancel_appointment" -> {"appointment_id"}
      [] name = "get_appointment_history" -> {"patient_mrn"}

\* FunctionToolWrapper.invoke(**args)
invoke(name, w, sid, a, rnd) ==
    CASE name = "lookup_patient" -> lookup_patient(w, sid, a)
      [] name = "send_otp" -> send_otp(w, sid, a)
      [] name = "verify_otp" -> verify_otp(w, sid, a)
      [] name = "search_available_slots" -> search_available_slots(w, sid, a)
      [] name = "book_appointment" -> book_appointment(w, sid, a, rnd)
      [] name = "reschedule_appointment" -> reschedule_appointment(w, sid, a)
      [] name = "cancel_appointment" -> cancel_appointment(w, sid, a)
      [] name = "get_appointment_history" -> get_appointment_history(w, sid, a)

\* the arguments text of a function call: a JSON object, the empty string,
\* or text json.loads rejects
Obj(a) == [kind |-> "object", val |-> a]

NoArguments == [kind |-> "empty"]

Malformed == [kind |-> "malformed"]

ErrorPayload(msg) == [kind |-> "error", error |-> msg]

\* _execute_tool answering a name it does not know with an empty output
_execute_tool_lenient(w, sid, name, arguments, rnd) ==
    IF name \notin _tool_lookup
    THEN [w |-> w, out |-> [kind |-> "no_output"], invoked |-> FALSE]
    ELSE IF arguments.kind = "malformed"
         THEN [w |-> w, out |-> ErrorPayload(<<"JSONDecodeError">>),
               invoked |-> FALSE]
         ELSE LET a == IF arguments.kind = "empty" THEN EmptyDict ELSE arguments.val
              IN  IF DOMAIN a # ToolParams(name)
                  THEN [w |-> w, out |-> ErrorPayload(<<"TypeError", name>>),
                        invoked |-> TRUE]
                  ELSE LET r == invoke(name, w, sid, a, rnd)
                       IN  IF r.out.kind = "raised"
                           THEN [w |-> r.w, out |-> ErrorPayload(r.out.message),
                                 invoked |-> TRUE]
                           ELSE [w |-> r.w, out |-> r.out, invoked |-> TRUE]

\* _execute_tool without its try/except
_execute_tool_uncaught(w, sid, name, arguments, rnd) ==
    IF name \notin _tool_lookup
    THEN [w |-> w, out |-> ErrorPayload(<<"Unknown tool", name>>),
          invoked |-> FALSE]
    ELSE IF arguments.kind = "malformed"
         THEN [w |-> w, out |-> [kind |-> "raised",
                                 message |-> <<"JSONDecodeError">>],
               invoked |-> FALSE]
         ELSE LET a == IF arguments.kind = "empty" THEN EmptyDict ELSE arguments.val
              IN  IF DOMAIN a # ToolParams(name)
                  THEN [w |-> w, out |-> [kind |-> "raised",
                                          message |-> <<"TypeError", name>>],
                        invoked |-> TRUE]
                  ELSE LET r == invoke(name, w, sid, a, rnd)
                       IN  [w |-> r.w, out |-> r.out, invoked |-> TRUE]

\* invoked: tool.invoke(**args) was called
_execute_tool(w, sid, name, arguments, rnd) ==
    IF name \notin _tool_lookup
    THEN [w |-> w, out |-> ErrorPayload(<<"Unknown tool", name>>),
          invoked |-> FALSE]
    ELSE IF arguments.kind = "malformed"
         THEN [w |-> w, out |-> ErrorPayload(<<"JSONDecodeError">>),
               invoked |-> FALSE]
         ELSE LET a == IF arguments.kind = "empty" THEN EmptyDict ELSE arguments.val
              IN  IF DOMAIN a # ToolParams(name)
                  THEN [w |-> w, out |-> ErrorPayload(<<"TypeError", name>>),
                        invoked |-> TRUE]
                  ELSE LET r == invoke(name, w, sid, a, rnd)
                       IN  IF r.out.kind = "raised"
                           THEN [w |-> r.w, out |-> ErrorPayload(r.out.message),
                                 invoked |-> TRUE]
                           ELSE [w |-> r.w, out |-> r.out, invoked |-> TRUE]

\* ------------------------------------------------------------------------
\* sessions/cosmos_store.py and sessions/manager.py, on the container
\* ------------------------------------------------------------------------

NewSession(session_id) ==
    [session_id |-> session_id, created_at |-> now, updated_at |-> now,
     patient_mrn |-> None, patient_verified |-> FALSE,
     conversation_history |-> <<>>, patient_context |-> None,
     metadata |-> [last_agent |-> NoText, handoff_count |-> 0, tool_calls |-> <<>>],
     ttl |-> DEFAULT_TTL]

create_session(c, session_id) == Put(c, session_id, NewSession(session_id))

get_session(c, session_id) ==
    IF session_id \in DOMAIN c THEN c[session_id] ELSE None

\* update_session: replace_item with updated_at set to the time of the call
update_session(c, session) ==
    Put(c, session.session_id, [session EXCEPT !.updated_at = now])

\* get_or_create that does not look the session up first
get_or_create_always_creates(c, session_id) == create_session(c, session_id)

\* SessionManager.get_or_create
get_or_create(c, session_id) ==
    IF get_session(c, session_id) = None THEN create_session(c, session_id) ELSE c

\* add_turn putting the new turn in front of the history
add_turn_prepends(c, session_id, role, text) ==
    LET c1 == IF get_session(c, session_id) = None
              THEN create_session(c, session_id) ELSE c
        turn == [role |-> role, text |-> text, timestamp |-> now]
    IN  update_session(c1,
            [c1[session_id] EXCEPT
                !.conversation_history = <<turn>> \o @])

\* add_turn without agent and tool_calls, as the chat route calls it
add_turn(c, session_id, role, text) ==
    LET c1 == IF get_session(c, session_id) = None
              THEN create_session(c, session_id) ELSE c
        turn == [role |-> role, text |-> text, timestamp |-> now]
    IN  update_session(c1,
            [c1[session_id] EXCEPT
                !.conversation_history = Append(@, turn)])

set_patient_context(c, session_id, mrn, name, phone_masked, dob, verified) ==
    LET c1 == IF get_session(c, session_id) = None
              THEN create_session(c, session_id) ELSE c
    IN  update_session(c1,
            [c1[session_id] EXCEPT
                !.patient_mrn = mrn,
                !.patient_verified = verified,
                !.patient_context = [name |-> name, phone_masked |-> phone_masked,
                                     dob |-> dob, verified_at |-> verified]])

\* mark_patient_verified on a session that exists (it raises on one that
\* does not)
mark_patient_verified(c, session_id) ==
    LET session == c[session_id]
    IN  update_session(c,
            [session EXCEPT
                !.patient_verified = TRUE,
                !.patient_context =
                    IF @ # None THEN [@ EXCEPT !.verified_at = TRUE] ELSE @])

\* increment_handoff that counts the handoff and appends no turn
increment_handoff_counts_only(c, session_id, from_agent, to_agent) ==
    LET c1 == IF get_session(c, session_id) = None
              THEN create_session(c, session_id) ELSE c
    IN  update_session(c1,
            [c1[session_id] EXCEPT
                !.metadata = [@ EXCEPT !.handoff_count = @ + 1,
                                       !.last_agent = to_agent]])

increment_handoff(c, session_id, from_agent, to_agent) ==
    LET c1 == IF get_session(c, session_id) = None
              THEN create_session(c, session_id) ELSE c
        turn == [role |-> "system", text |-> "Handoff", timestamp |-> now,
                 event |-> "handoff", from_agent |-> from_agent,
                 to_agent |-> to_agent]
    IN  update_session(c1,
            [c1[session_id] EXCEPT
                !.metadata = [@ EXCEPT !.handoff_count = @ + 1,
                                       !.last_agent = to_agent],
                !.conversation_history = Append(@, turn)])

\* delete_session that leaves the document in the container
delete_session_keeps_document(c, session_id) == c

\* get_conversation_history: [] for a session that is not there
get_conversation_history(c, session_id) ==
    IF get_session(c, session_id) = None
    THEN <<>>
    ELSE c[session_id].conversation_history

\* CosmosSessionStore.delete_session: the container after delete_item
delete_session(c, session_id) == Del(c, session_id)

\* the projection of the query of list_active_sessions
Summary(session) ==
    [session_id |-> session.session_id, created_at |-> session.created_at,
     updated_at |-> session.updated_at, patient_mrn |-> session.patient_mrn,
     patient_verified |-> session.patient_verified]

\* list_active_sessions: the results the query can give, every document
\* once, ORDER BY c.updated_at DESC, documents updated at the same time in
\* either order (max_item_count is the page size; the loop reads every page)
list_active_sessions(c) ==
    LET n == Cardinality(DOMAIN c)
        orders == {q \in [1..n -> DOMAIN c] :
                      /\ \A i, j \in 1..n : i # j => q[i] # q[j]
                      /\ \A i, j \in 1..n :
                            i < j => c[q[i]].updated_at >= c[q[j]].updated_at}
    IN  {[i \in 1..n |-> Summary(c[q[i]])] : q \in orders}

\* the documents the container still holds at time t: Cosmos removes an
\* item ttl seconds after its last write
Live(c, t) ==
    LET ids == {id \in DOMAIN c : t - c[id].updated_at < c[id].ttl}
    IN  [id \in ids |-> c[id]]

\* SessionManager.set_conversation_id
set_conversation_id(wf, session_id, conversation_id) ==
    Put(wf, session_id, [conversation_id |-> conversation_id])

\* SessionManager.clear_conversation
clear_conversation(wf, session_id) ==
    IF session_id \in DOMAIN wf THEN Del(wf, session_id) ELSE wf

\* ------------------------------------------------------------------------
\* Initial state: the modules are loaded, the factory and the session
\* manager are entered, nothing has been asked yet
\* ------------------------------------------------------------------------

NoRun ==
    [session |-> NoText, message |-> NoText, conv_id |-> None,
     last_response_id |-> None, response |-> None, outputs |-> <<>>,
     tools_called |-> <<>>, iterations |-> 0]

NoRequest == [op |-> "none"]

NoReturn == [op |-> "none"]

\* the patients memories are kept for
Scopes == {MRN5001, MRN5050}

\* agents/memory.py FoundryMemoryStore.__init__
FoundryMemoryStore == [_client |-> FALSE, _ready |-> FALSE]

Init ==
    /\ _ACTIVE_OTPS = EmptyDict
    /\ _VERIFIED = EmptyDict
    /\ _LAST_VERIFIED = EmptyDict
    /\ _APPOINTMENTS = InitialAppointments
    /\ _sessions = EmptyDict
    /\ _workflows = EmptyDict
    /\ container = EmptyDict
    /\ conversations_created = 0
    /\ responses_created = 0
    /\ conversations = EmptyDict
    /\ entry \in {"http", "direct"}
    /\ runs = 0
    /\ pc = [t \in Tasks |-> "idle"]
    /\ _current_session_id = [t \in Tasks |-> NoText]
    /\ local = [t \in Tasks |-> NoRun]
    /\ result = [t \in Tasks |-> None]
    /\ requests = [t \in Tasks |-> 0]
    /\ sent = [t \in Tasks |-> NoRequest]
    /\ dispatched = [t \in Tasks |-> <<>>]
    /\ issued_in = EmptyDict
    /\ now = 0
    /\ returned = NoReturn
    /\ previous = NoReturn
    /\ _memory = FoundryMemoryStore
    /\ memory_stores = [scope \in Scopes |-> <<>>]
    /\ _PENDING_TRANSFERS = EmptyDict

\* ------------------------------------------------------------------------
\* api/routes.py chat, up to the call of factory.run
\* ------------------------------------------------------------------------

\* nothing of an earlier turn is left in the caller's hands or on the wire
FreshRun(t) ==
    /\ result' = [result EXCEPT ![t] = None]
    /\ requests' = [requests EXCEPT ![t] = 0]
    /\ sent' = [sent EXCEPT ![t] = NoRequest]
    /\ dispatched' = [dispatched EXCEPT ![t] = <<>>]

\* chat keeping the indicator in a module global, one for all tasks
chat_global_indicator(t, session_id, message) ==
    /\ entry = "http"
    /\ pc[t] = "idle"
    /\ runs < MaxRuns
    /\ runs' = runs + 1
    /\ container' = add_turn(get_or_create(container, session_id),
                             session_id, "user", message)
    /\ _current_session_id' =
          [u \in DOMAIN _current_session_id |-> session_id]
    /\ local' = [local EXCEPT ![t] =
                    [NoRun EXCEPT !.session = session_id, !.message = message]]
    /\ pc' = [pc EXCEPT ![t] = "entered"]
    /\ FreshRun(t)
    /\ UNCHANGED <<toolVars, _sessions, _workflows, remoteVars, entry, adminVars, issued_in>>

\* a request arrives in a task of its own, whose context starts from the
\* server's, where the indicator was never set
chat(t, session_id, message) ==
    /\ entry = "http"
    /\ pc[t] = "idle"
    /\ runs < MaxRuns
    /\ runs' = runs + 1
    /\ container' = add_turn(get_or_create(container, session_id),
                             session_id, "user", message)
    /\ _current_session_id' = [_current_session_id EXCEPT ![t] = session_id]
    /\ local' = [local EXCEPT ![t] =
                    [NoRun EXCEPT !.session = session_id, !.message = message]]
    /\ pc' = [pc EXCEPT ![t] = "entered"]
    /\ FreshRun(t)
    /\ UNCHANGED <<toolVars, _sessions, _workflows, remoteVars, entry, adminVars, issued_in>>

\* cli.py run_local_mode and the direct tests: factory.run is called with
\* no request handler around it
cli_turn(t, session_id, message) ==
    /\ entry = "direct"
    /\ pc[t] = "idle"
    /\ runs < MaxRuns
    /\ runs' = runs + 1
    /\ local' = [local EXCEPT ![t] =
                    [NoRun EXCEPT !.session = session_id, !.message = message]]
    /\ pc' = [pc EXCEPT ![t] = "entered"]
    /\ FreshRun(t)
    /\ UNCHANGED <<toolVars, _sessions, storeVars, remoteVars, entry, adminVars,
                   _current_session_id, issued_in>>

\* ------------------------------------------------------------------------
\* agents/factory.py AgentFactory.run
\* ------------------------------------------------------------------------

\* run() opening a conversation at every turn
run_always_new(t) ==
    /\ pc[t] = "entered"
    /\ pc' = [pc EXCEPT ![t] = "creating"]
    /\ UNCHANGED <<toolVars, _sessions, storeVars, remoteVars, entry, adminVars, runs,
                   _current_session_id, local, result, wireVars, dispatched,
                   issued_in>>

\* run() up to its first await: conversations.create for a new session,
\* conversations.items.create for a known one
run(t) ==
    /\ pc[t] = "entered"
    /\ IF local[t].session \notin DOMAIN _sessions
       THEN /\ pc' = [pc EXCEPT ![t] = "creating"]
            /\ local' = local
       ELSE /\ pc' = [pc EXCEPT ![t] = "appending"]
            /\ local' = [local EXCEPT ![t] =
                  [@ EXCEPT !.conv_id = _sessions[local[t].session].conv_id,
                            !.last_response_id =
                                _sessions[local[t].session].last_response_id]]
    /\ UNCHANGED <<toolVars, _sessions, storeVars, remoteVars, entry, adminVars, runs,
                   _current_session_id, result, wireVars, dispatched, issued_in>>

\* the items conversations.create is given
seed_items(message) ==
    IF message # NoText
    THEN <<[type |-> "message", role |-> "user", content |-> message]>>
    ELSE <<>>

\* conversations.create answers: _get_or_create_conversation records the
\* conversation, run() asks for the first response on it
conversation_created(t) ==
    /\ pc[t] = "creating"
    /\ conversations_created' = conversations_created + 1
    /\ LET conv_id == "conv_" \o ToString(conversations_created + 1)
       IN  /\ _sessions' = Put(_sessions, local[t].session,
                               [conv_id |-> conv_id, last_response_id |-> None])
           /\ conversations' = Put(conversations, conv_id,
                                   seed_items(local[t].message))
           /\ local' = [local EXCEPT ![t] = [@ EXCEPT !.conv_id = conv_id]]
           /\ sent' = [sent EXCEPT ![t] =
                         [op |-> "responses.create", conversation |-> conv_id,
                          previous_response_id |-> None, input |-> <<>>]]
    /\ requests' = [requests EXCEPT ![t] = @ + 1]
    /\ pc' = [pc EXCEPT ![t] = "awaiting"]
    /\ UNCHANGED <<toolVars, storeVars, responses_created, entry, adminVars, runs,
                   _current_session_id, result, dispatched, issued_in>>

\* conversations.items.create answers: run() asks for a response chained
\* from the session's last response
item_appended(t) ==
    /\ pc[t] = "appending"
    /\ sent' = [sent EXCEPT ![t] =
                  [op |-> "responses.create", conversation |-> None,
                   previous_response_id |-> local[t].last_response_id,
                   input |-> <<[type |-> "message", content |-> local[t].message]>>]]
    /\ conversations' =
          IF local[t].conv_id \in DOMAIN conversations
          THEN Put(conversations, local[t].conv_id,
                   Append(conversations[local[t].conv_id],
                          [type |-> "message", role |-> "user",
                           content |-> local[t].message]))
          ELSE conversations
    /\ requests' = [requests EXCEPT ![t] = @ + 1]
    /\ pc' = [pc EXCEPT ![t] = "awaiting"]
    /\ UNCHANGED <<toolVars, _sessions, storeVars, conversations_created,
                   responses_created, entry, adminVars, runs,
                   _current_session_id, local, result, dispatched, issued_in>>

\* what the remote model may answer: no function call, or a batch of at
\* most MaxBatch calls drawn from `choices` while the run has fewer than
\* MaxCalls calls, or (beyond that) one of the answers in `more`
Batches(t, choices, more) ==
    {<<>>}
    \cup {b \in UNION {[1..n -> choices] : n \in 1..MaxBatch} :
            Len(local[t].tools_called) + Len(b) <= MaxCalls}
    \cup more

\* the response object: the service numbers it and its function calls
Response(n, b) ==
    [id |-> <<"resp", n>>,
     output |-> [i \in DOMAIN b |->
                    [type |-> "function_call", name |-> b[i].name,
                     arguments |-> b[i].arguments, call_id |-> <<"call", n, i>>]],
     output_text |-> <<"text", n>>]

\* the loop with one iteration more
loop_continues_inclusive(iterations) == iterations <= MAX_TOOL_ITERATIONS

\* for _ in range(self.MAX_TOOL_ITERATIONS): another iteration starts
loop_continues(iterations) == iterations < MAX_TOOL_ITERATIONS

\* a list of the distinct tools used
track_once(tools_called, name) ==
    IF \E i \in DOMAIN tools_called : tools_called[i] = name
    THEN tools_called
    ELSE Append(tools_called, name)

\* tools_called.append(call.name)
track(tools_called, name) == Append(tools_called, name)

\* a result that replaces the text of a response left with function calls
\* by a text no response carries
run_result_cap_message(t, response) ==
    [response |-> IF response.output # <<>>
                  THEN <<"text", 0>>
                  ELSE response.output_text,
     conversation_id |-> local[t].session,
     tools_called |-> local[t].tools_called]

\* the end of run(): the continuation token is stored and the result built
run_result(t, response) ==
    [response |-> response.output_text,
     conversation_id |-> local[t].session,
     tools_called |-> local[t].tools_called]

\* run() ending without `self._sessions[session]["last_response_id"] = ...`
run_returns_keeps_token(t, response) ==
    /\ _sessions' = _sessions
    /\ result' = [result EXCEPT ![t] = run_result(t, response)]
    /\ pc' = [pc EXCEPT ![t] = IF entry = "http" THEN "returned" ELSE "idle"]

\* run() that keeps the response and never comes back to its caller
run_returns_hangs(t, response) ==
    /\ _sessions' = _sessions
    /\ result' = result
    /\ pc' = [pc EXCEPT ![t] = "hung"]

run_returns(t, response) ==
    IF local[t].session \in DOMAIN _sessions
    THEN /\ _sessions' = Put(_sessions, local[t].session,
                             [_sessions[local[t].session] EXCEPT
                                 !.last_response_id = response.id])
         /\ result' = [result EXCEPT ![t] = run_result(t, response)]
         /\ pc' = [pc EXCEPT ![t] = IF entry = "http" THEN "returned" ELSE "idle"]
    ELSE /\ _sessions' = _sessions
         /\ result' = [result EXCEPT ![t] = [error |-> "KeyError"]]
         /\ pc' = [pc EXCEPT ![t] = "idle"]

\* responses.create answers. The loop examines the response while it has
\* iterations left: function calls are executed next, none ends the loop;
\* with no iteration left the response is returned as it is
response_received(t, choices, more) ==
    /\ pc[t] = "awaiting"
    /\ responses_created' = responses_created + 1
    /\ sent' = [sent EXCEPT ![t] = NoRequest]
    /\ \E b \in Batches(t, choices, more) :
         LET response == Response(responses_created + 1, b)
         IN  IF loop_continues(local[t].iterations) /\ response.output # <<>>
             THEN /\ local' = [local EXCEPT ![t] =
                         [@ EXCEPT !.response = response, !.outputs = <<>>,
                                   !.iterations = @ + 1]]
                  /\ pc' = [pc EXCEPT ![t] = "executing"]
                  /\ UNCHANGED <<_sessions, result>>
             ELSE /\ local' = [local EXCEPT ![t] = [@ EXCEPT !.response = response]]
                  /\ run_returns(t, response)
    /\ UNCHANGED <<toolVars, storeVars, conversations_created, conversations,
                   entry, adminVars, runs, _current_session_id, requests, dispatched,
                   issued_in>>

\* a batch cut after its first call
batch_done_first(response, outputs) == Len(outputs) >= 1

\* for call in function_calls: every call of the response has its output
batch_done(response, outputs) == Len(outputs) = Len(response.output)

\* history kept beside the code table: who had a code issued, until it is used
issuer(issued, session, call, out) ==
    IF call.name = "send_otp" /\ out.kind = "otp_sent"
    THEN Put(issued, call.arguments.val.patient_mrn, session)
    ELSE IF call.name = "verify_otp" /\ out.kind = "verified"
         THEN Del(issued, call.arguments.val.patient_mrn)
         ELSE issued

\* _process_function_calls: the next function call of the response is
\* recorded and executed (the handlers are synchronous: the task keeps the
\* event loop from the first call of a batch to the request that follows it)
exec_tool(t) ==
    /\ pc[t] = "executing"
    /\ ~batch_done(local[t].response, local[t].outputs)
    /\ \E rnd \in GenAptIds :
         LET call == local[t].response.output[Len(local[t].outputs) + 1]
             r == _execute_tool(World, get_session_context(t),
                                call.name, call.arguments, rnd)
         IN  /\ SetWorld(r.w)
             /\ local' = [local EXCEPT ![t] =
                    [@ EXCEPT !.tools_called = track(@, call.name),
                              !.outputs = Append(@,
                                  [type |-> "function_call_output",
                                   call_id |-> call.call_id, output |-> r.out])]]
             /\ dispatched' = [dispatched EXCEPT ![t] = Append(@, call.name)]
             /\ issued_in' = issuer(issued_in, local[t].session, call, r.out)
    /\ UNCHANGED <<_sessions, storeVars, remoteVars, entry, adminVars, runs, pc,
                   _current_session_id, result, wireVars>>

\* the outputs handed to responses.create after the batch
follow_up(response, outputs) ==
    [op |-> "responses.create", conversation |-> None,
     previous_response_id |-> response.id, input |-> outputs]

\* _process_function_calls: every call of the batch has run; the outputs go
\* back in one request chained from the response
submit_outputs(t) ==
    /\ pc[t] = "executing"
    /\ batch_done(local[t].response, local[t].outputs)
    /\ sent' = [sent EXCEPT ![t] = follow_up(local[t].response, local[t].outputs)]
    /\ requests' = [requests EXCEPT ![t] = @ + 1]
    /\ pc' = [pc EXCEPT ![t] = "awaiting"]
    /\ UNCHANGED <<toolVars, _sessions, storeVars, remoteVars, entry, adminVars, runs,
                   _current_session_id, local, result, dispatched, issued_in>>

\* a call to the remote service fails: run() raises; the chat route turns
\* it into a 500 answer, the CLI prints it
remote_fault(t) ==
    /\ pc[t] \in {"creating", "appending", "awaiting"}
    /\ result' = [result EXCEPT ![t] = [error |-> "remote"]]
    /\ sent' = [sent EXCEPT ![t] = NoRequest]
    /\ pc' = [pc EXCEPT ![t] = "idle"]
    /\ UNCHANGED <<toolVars, _sessions, storeVars, remoteVars, entry, adminVars, runs,
                   _current_session_id, local, requests, dispatched, issued_in>>

\* AgentFactory.clear_session, as cli.py calls it on /new between two
\* turns: the remote conversation is deleted, or the attempt fails and is
\* only logged; the session's entry goes either way
clear_session(t, session_id) ==
    /\ entry = "direct"
    /\ pc[t] = "idle"
    /\ IF session_id \notin DOMAIN _sessions
       THEN UNCHANGED <<_sessions, conversations>>
       ELSE /\ conversations' \in
                  {Del(conversations, _sessions[session_id].conv_id),
                   conversations}
            /\ _sessions' = Del(_sessions, session_id)
    /\ UNCHANGED <<toolVars, storeVars, conversations_created,
                   responses_created, entry, adminVars, runs, pc, _current_session_id,
                   local, result, wireVars, dispatched, issued_in>>

\* ------------------------------------------------------------------------
\* api/routes.py chat, after factory.run returned
\* ------------------------------------------------------------------------

\* get_last_verified_patient that never finds a marker
get_last_verified_patient_none(last, sid, session_id) == None

\* tools/otp.py get_last_verified_patient(session_id): the value popped
get_last_verified_patient(last, sid, session_id) ==
    LET s == IF session_id # NoText THEN session_id ELSE sid
    IN  IF s # NoText /\ s \in DOMAIN last THEN last[s] ELSE None

chat_returns(t) ==
    /\ pc[t] = "returned"
    /\ LET session_id == local[t].session
           verified_patient ==
               get_last_verified_patient(_LAST_VERIFIED,
                                         get_session_context(t), session_id)
           turned == add_turn(container, session_id, "assistant", result[t].response)
       IN  /\ _workflows' = set_conversation_id(_workflows, session_id,
                                                result[t].conversation_id)
           /\ _LAST_VERIFIED' = Del(_LAST_VERIFIED, session_id)
           /\ container' =
                 IF verified_patient # None
                 THEN set_patient_context(turned, session_id,
                          verified_patient.mrn, verified_patient.name,
                          IF verified_patient.phone # <<>>
                          THEN MaskPhone(verified_patient.phone) ELSE <<>>,
                          verified_patient.dob, TRUE)
                 ELSE turned
    /\ pc' = [pc EXCEPT ![t] = "idle"]
    /\ UNCHANGED <<_ACTIVE_OTPS, _VERIFIED, _APPOINTMENTS, _sessions, remoteVars,
                   entry, adminVars, runs, _current_session_id, local, result, wireVars,
                   dispatched, issued_in>>

\* ------------------------------------------------------------------------
\* The remote model's function calls
\* ------------------------------------------------------------------------

Call(name, arguments) == [name |-> name, arguments |-> arguments]

SendOtp == Call("send_otp", Obj([patient_mrn |-> MRN5001]))

VerifyOtp == Call("verify_otp", Obj([patient_mrn |-> MRN5001, otp_code |-> OTP]))

VerifyWrongOtp ==
    Call("verify_otp", Obj([patient_mrn |-> MRN5001, otp_code |-> WRONG_OTP]))

LookupPatient == Call("lookup_patient", Obj([identifier |-> mrn5001]))

GetHistory == Call("get_appointment_history", Obj([patient_mrn |-> MRN5050]))

BookAppointment ==
    Call("book_appointment",
         Obj([patient_mrn |-> MRN5001, doctor_id |-> "DR001",
              date |-> 20260301, time |-> "09:00"]))

CancelAppointment == Call("cancel_appointment", Obj([appointment_id |-> "APT-1001"]))

UnknownTool == Call("no_such_tool", NoArguments)

BadPayload == Call("lookup_patient", Malformed)

\* 30 February: strptime raises ValueError
SearchSlotsBadDate ==
    Call("search_available_slots", Obj([doctor_id |-> "DR001", date |-> 20260230]))

SearchSlots ==
    Call("search_available_slots", Obj([doctor_id |-> "DR001", date |-> 20260215]))

\* identity verification
OtpCalls == {SendOtp, VerifyOtp, VerifyWrongOtp}

\* identity verification and the protected operations
GateCalls == {SendOtp, VerifyOtp, GetHistory, BookAppointment, CancelAppointment}

\* calls that succeed, name no tool, or carry a bad payload
LoopCalls == {LookupPatient, UnknownTool, BadPayload}

\* calls that name no tool, carry a bad payload, make the handler raise,
\* or succeed
FaultCalls == {UnknownTool, BadPayload, SearchSlotsBadDate, SearchSlots}

\* ------------------------------------------------------------------------
\* Specifications: turns of either program, one at a time
\* ------------------------------------------------------------------------

Turns(sessions, choices, more) ==
    \E t \in Tasks :
        \/ \E s \in sessions, m \in Messages : chat(t, s, m)
        \/ \E s \in sessions, m \in Messages : cli_turn(t, s, m)
        \/ run(t)
        \/ conversation_created(t)
        \/ item_appended(t)
        \/ response_received(t, choices, more)
        \/ exec_tool(t)
        \/ submit_outputs(t)
        \/ remote_fault(t)
        \/ chat_returns(t)

\* two sessions, the model asking for identity verification
Next == Turns(Sessions, OtpCalls, {})

Spec == Init /\ [][Next]_vars

\* one session, the model asking for verification and protected operations
NextGate == Turns({"s1"}, GateCalls, {})

SpecGate == Init /\ [][NextGate]_vars

\* one session; in the last run of the behaviour the model goes on asking
\* for one more call after its MaxCalls chosen ones, for as long as the loop
\* lets it
NextLoop ==
    Turns({"s1"}, LoopCalls, IF runs = MaxRuns THEN {<<LookupPatient>>} ELSE {})

SpecLoop == Init /\ [][NextLoop]_vars

\* what a task may do next, a turn of either program or a step of its turn
Steps(t, sessions, messages, choices, more) ==
    \/ \E s \in sessions, m \in messages : chat(t, s, m)
    \/ \E s \in sessions, m \in messages : cli_turn(t, s, m)
    \/ run(t)
    \/ conversation_created(t)
    \/ item_appended(t)
    \/ response_received(t, choices, more)
    \/ exec_tool(t)
    \/ submit_outputs(t)
    \/ remote_fault(t)
    \/ chat_returns(t)

\* one session, the model asking for calls that fail and calls that do not
NextFault == Turns({"s1"}, FaultCalls, {})

SpecFault == Init /\ [][NextFault]_vars

\* one session over several turns with different messages, the CLI's /new
\* between turns included
NextTalk ==
    \E t \in Tasks :
        \/ Steps(t, {"s1"}, TalkMessages, {LookupPatient}, {})
        \/ clear_session(t, "s1")

SpecTalk == Init /\ [][NextTalk]_vars

\* the server with two requests in flight
InitConcurrent ==
    /\ _ACTIVE_OTPS = EmptyDict
    /\ _VERIFIED = EmptyDict
    /\ _LAST_VERIFIED = EmptyDict
    /\ _APPOINTMENTS = InitialAppointments
    /\ _sessions = EmptyDict
    /\ _workflows = EmptyDict
    /\ container = EmptyDict
    /\ conversations_created = 0
    /\ responses_created = 0
    /\ conversations = EmptyDict
    /\ entry = "http"
    /\ runs = 0
    /\ pc = [t \in ConcurrentTasks |-> "idle"]
    /\ _current_session_id = [t \in ConcurrentTasks |-> NoText]
    /\ local = [t \in ConcurrentTasks |-> NoRun]
    /\ result = [t \in ConcurrentTasks |-> None]
    /\ requests = [t \in ConcurrentTasks |-> 0]
    /\ sent = [t \in ConcurrentTasks |-> NoRequest]
    /\ dispatched = [t \in ConcurrentTasks |-> <<>>]
    /\ issued_in = EmptyDict
    /\ now = 0
    /\ returned = NoReturn
    /\ previous = NoReturn
    /\ _memory = FoundryMemoryStore
    /\ memory_stores = [scope \in Scopes |-> <<>>]
    /\ _PENDING_TRANSFERS = EmptyDict

\* the tool handlers are synchronous: from the first call of a batch to the
\* request that follows it the task does not give up the event loop
HoldsLoop(t) == pc[t] = "executing"

\* the session a request may be for: the first for s1, the second for
\* the same session or the other one
SessionsOf(t) == IF t = "t1" THEN {"s1"} ELSE Sessions

\* one chat request per task, interleaving at every await of run()
NextConcurrent ==
    \E t \in ConcurrentTasks :
        /\ \A u \in ConcurrentTasks \ {t} : ~HoldsLoop(u)
        /\ \/ \E s \in SessionsOf(t), m \in Messages :
                 local[t] = NoRun /\ chat(t, s, m)
           \/ run(t)
           \/ conversation_created(t)
           \/ item_appended(t)
           \/ response_received(t, {SendOtp, VerifyOtp}, {})
           \/ exec_tool(t)
           \/ submit_outputs(t)
           \/ remote_fault(t)
           \/ chat_returns(t)

SpecConcurrent == InitConcurrent /\ [][NextConcurrent]_vars

\* ------------------------------------------------------------------------
\* The session manager used on its own: sessions/manager.py over
\* sessions/cosmos_store.py, one call at a time, while time passes
\* ------------------------------------------------------------------------

InitStore == Init /\ entry = "http"

\* a call as the history keeps it: whether it was a get_or_create or a
\* delete_session and for which session, and for a deletion whether it found
\* the session
Brief(r) ==
    IF r.op = "delete_session" THEN r
    ELSE IF r.op = "get_or_create" THEN [op |-> r.op, session_id |-> r.session_id]
    ELSE NoReturn

\* a call of the session manager returns: nothing but the store, the
\* workflow cache and the clock is involved
Returns(op, session_id, value) ==
    /\ returned' = [op |-> op, session_id |-> session_id, value |-> value]
    /\ previous' = Brief(returned)
    /\ UNCHANGED <<toolVars, _sessions, remoteVars, entry, now, memoryVars,
                   _PENDING_TRANSFERS, runs, pc, _current_session_id, local,
                   result, wireVars, dispatched, issued_in>>

HistoryRoom(session_id) ==
    IF session_id \in DOMAIN container
    THEN Len(container[session_id].conversation_history) < MaxHistory
    ELSE TRUE

SessionManager_get_or_create(session_id) ==
    /\ container' = get_or_create(container, session_id)
    /\ LET session == get_session(container, session_id)
       IN  Returns("get_or_create", session_id,
                   IF session = None THEN NewSession(session_id) ELSE session)
    /\ UNCHANGED _workflows

SessionManager_get_session(session_id) ==
    /\ Returns("get_session", session_id, get_session(container, session_id))
    /\ UNCHANGED storeVars

SessionManager_delete_session(session_id) ==
    /\ _workflows' = IF session_id \in DOMAIN _workflows
                     THEN Del(_workflows, session_id) ELSE _workflows
    /\ container' = IF session_id \in DOMAIN container
                    THEN delete_session(container, session_id) ELSE container
    /\ Returns("delete_session", session_id, session_id \in DOMAIN container)

SessionManager_set_conversation_id(session_id, conversation_id) ==
    /\ _workflows' = set_conversation_id(_workflows, session_id, conversation_id)
    /\ Returns("set_conversation_id", session_id, None)
    /\ UNCHANGED container

SessionManager_add_turn(session_id, role, text) ==
    /\ HistoryRoom(session_id)
    /\ container' = add_turn(container, session_id, role, text)
    /\ Returns("add_turn", session_id, container'[session_id])
    /\ UNCHANGED _workflows

SessionManager_set_patient_context(session_id, mrn, verified) ==
    /\ container' = set_patient_context(container, session_id, mrn,
                        _PATIENTS[mrn].name, MaskPhone(_PATIENTS[mrn].phone),
                        _PATIENTS[mrn].dob, verified)
    /\ Returns("set_patient_context", session_id, container'[session_id])
    /\ UNCHANGED _workflows

SessionManager_mark_patient_verified(session_id) ==
    /\ IF get_session(container, session_id) = None
       THEN /\ UNCHANGED container
            /\ Returns("mark_patient_verified", session_id, "ValueError")
       ELSE /\ container' = mark_patient_verified(container, session_id)
            /\ Returns("mark_patient_verified", session_id, None)
    /\ UNCHANGED _workflows

SessionManager_record_handoff(session_id, from_agent, to_agent) ==
    /\ HistoryRoom(session_id)
    /\ container' = increment_handoff(container, session_id, from_agent, to_agent)
    /\ Returns("record_handoff", session_id, None)
    /\ UNCHANGED _workflows

SessionManager_list_active_sessions ==
    /\ \E items \in list_active_sessions(container) :
          Returns("list_active_sessions", NoText, items)
    /\ UNCHANGED storeVars

\* half a time-to-live passes, and the container drops what has expired
Tick ==
    /\ now < MaxTicks * (DEFAULT_TTL \div 2)
    /\ now' = now + (DEFAULT_TTL \div 2)
    /\ container' = Live(container, now')
    /\ UNCHANGED <<toolVars, _sessions, _workflows, remoteVars, entry, returned,
                   previous, memoryVars, _PENDING_TRANSFERS, runs, pc,
                   _current_session_id, local,
                   result, wireVars, dispatched, issued_in>>

\* the session the calls are about, and a second one that is only
\* created, talked in and deleted
NextStore ==
    \/ \E session_id \in Sessions :
          \/ SessionManager_get_or_create(session_id)
          \/ SessionManager_delete_session(session_id)
          \/ SessionManager_add_turn(session_id, "user", "hello")
    \/ \E session_id \in {"s1"} :
          \/ SessionManager_get_session(session_id)
          \/ SessionManager_set_conversation_id(session_id, "conv_1")
          \/ SessionManager_set_patient_context(session_id, MRN5001, TRUE)
          \/ SessionManager_mark_patient_verified(session_id)
          \/ SessionManager_record_handoff(session_id, "triage", "scheduling")
    \/ SessionManager_list_active_sessions
    \/ Tick

SpecStore == InitStore /\ [][NextStore]_vars

\* ------------------------------------------------------------------------
\* The server over time: chat requests of one session, one at a time, and
\* between them the session endpoints and the session manager's deletion
\* ------------------------------------------------------------------------

SendOtp5050 == Call("send_otp", Obj([patient_mrn |-> MRN5050]))

VerifyOtp5050 ==
    Call("verify_otp", Obj([patient_mrn |-> MRN5050, otp_code |-> OTP]))

\* identity verification of two patients
ServerCalls == {SendOtp, VerifyOtp, SendOtp5050, VerifyOtp5050}

\* no request is being handled
Quiet == \A t \in Tasks : pc[t] = "idle"

\* routes.py end_session: DELETE /session/{session_id}
end_session(session_id) ==
    /\ Quiet
    /\ _workflows' = clear_conversation(_workflows, session_id)
    /\ Returns("end_session", session_id, TRUE)
    /\ UNCHANGED container

NextServer ==
    \/ \E t \in Tasks :
          \/ \E m \in Messages : chat(t, "s1", m)
          \/ run(t)
          \/ conversation_created(t)
          \/ item_appended(t)
          \/ response_received(t, ServerCalls, {})
          \/ exec_tool(t)
          \/ submit_outputs(t)
          \/ remote_fault(t)
          \/ chat_returns(t)
    \/ end_session("s1")
    \/ Quiet /\ SessionManager_delete_session("s1")
    \/ Quiet /\ SessionManager_get_or_create("s1")
    \/ Quiet /\ SessionManager_list_active_sessions

SpecServer == InitStore /\ [][NextServer]_vars

\* ------------------------------------------------------------------------
\* The tools called directly, as the handlers the dispatcher invokes:
\* tools/otp.py and tools/scheduling.py over their module state
\* ------------------------------------------------------------------------

InitTools == Init /\ entry = "direct"

SendOtpUnknown == Call("send_otp", Obj([patient_mrn |-> MRN0000]))

GetHistory5001 == Call("get_appointment_history", Obj([patient_mrn |-> MRN5001]))

RescheduleBooked ==
    Call("reschedule_appointment",
         Obj([appointment_id |-> "APT-A3F9C2", new_date |-> 20260302,
              new_time |-> "10:00"]))

CancelBooked == Call("cancel_appointment", Obj([appointment_id |-> "APT-A3F9C2"]))

\* the code with a blank before and after it, and with a blank inside it
VerifyPaddedOtp ==
    Call("verify_otp", Obj([patient_mrn |-> MRN5001, otp_code |-> OTP_PADDED]))

VerifySpacedOtp ==
    Call("verify_otp",
         Obj([patient_mrn |-> MRN5001,
              otp_code |-> <<"1", "2", "3", " ", "4", "5", "6">>]))

LookupByPhone == Call("lookup_patient", Obj([identifier |-> PHONE5050]))

LookupUnknown == Call("lookup_patient", Obj([identifier |-> MRN0000]))

\* lookups that match and do not, identity verification that succeeds or
\* fails, and the life of a booking
ToolCalls ==
    {LookupPatient, LookupByPhone, LookupUnknown,
     SendOtp, SendOtpUnknown, VerifyOtp, VerifyWrongOtp, VerifyPaddedOtp,
     VerifySpacedOtp, BookAppointment, RescheduleBooked, CancelBooked, GetHistory5001}

\* tools/context.py set_session_context
set_session_context(t, session_id) ==
    /\ _current_session_id' = [_current_session_id EXCEPT ![t] = session_id]
    /\ UNCHANGED <<toolVars, _sessions, storeVars, remoteVars, entry, adminVars,
                   runs, pc, local, result, wireVars, dispatched, issued_in>>

\* FunctionToolWrapper.invoke(**args): the handler runs on the module
\* state in the caller's context, and returns its text or raises
tool_invoke(t, call) ==
    /\ \E rnd \in GenAptIds :
          LET r == invoke(call.name, World, get_session_context(t),
                          call.arguments.val, rnd)
          IN  /\ SetWorld(r.w)
              /\ returned' = [op |-> call.name,
                              session_id |-> get_session_context(t),
                              arguments |-> call.arguments.val,
                              value |-> r.out]
    /\ previous' = Brief(returned)
    /\ UNCHANGED <<_sessions, storeVars, remoteVars, entry, now, memoryVars,
                   _PENDING_TRANSFERS, runs, pc, _current_session_id, local,
                   result, wireVars, dispatched, issued_in>>

NextTools ==
    \E t \in Tasks :
        \/ set_session_context(t, "s1")
        \/ \E call \in ToolCalls : tool_invoke(t, call)

SpecTools == InitTools /\ [][NextTools]_vars

\* ------------------------------------------------------------------------
\* AgentFactory.clear_session at its await, called while other calls of the
\* factory are in flight
\* ------------------------------------------------------------------------

\* clear_session up to `await conversations.delete`: an unknown session
\* returns at once, a known one has its conv_id read
clear_session_called(t, session_id) ==
    /\ pc[t] = "idle"
    /\ session_id \in DOMAIN _sessions
    /\ local' = [local EXCEPT ![t] =
                    [NoRun EXCEPT !.session = session_id,
                                  !.conv_id = _sessions[session_id].conv_id]]
    /\ pc' = [pc EXCEPT ![t] = "deleting"]
    /\ UNCHANGED <<toolVars, _sessions, storeVars, remoteVars, entry, adminVars,
                   runs, _current_session_id, result, wireVars, dispatched,
                   issued_in>>

\* conversations.delete answers or fails (the failure is logged), then
\* `del self._sessions[session_id]`, which raises KeyError on a missing key
conversation_deleted(t) ==
    /\ pc[t] = "deleting"
    /\ conversations' \in
          {Del(conversations, local[t].conv_id), conversations}
    /\ IF local[t].session \in DOMAIN _sessions
       THEN /\ _sessions' = Del(_sessions, local[t].session)
            /\ result' = [result EXCEPT ![t] = [cleared |-> local[t].session]]
       ELSE /\ _sessions' = _sessions
            /\ result' = [result EXCEPT ![t] = [error |-> "KeyError"]]
    /\ pc' = [pc EXCEPT ![t] = "idle"]
    /\ UNCHANGED <<toolVars, storeVars, conversations_created, responses_created,
                   entry, adminVars, runs, _current_session_id, local, wireVars,
                   dispatched, issued_in>>

\* turns of one session and calls of clear_session for it, interleaved at
\* every await
NextClear ==
    \E t \in ConcurrentTasks :
        /\ \A u \in ConcurrentTasks \ {t} : ~HoldsLoop(u)
        /\ \/ \E m \in Messages : chat(t, "s1", m)
           \/ run(t)
           \/ conversation_created(t)
           \/ item_appended(t)
           \/ response_received(t, {LookupPatient}, {})
           \/ exec_tool(t)
           \/ submit_outputs(t)
           \/ remote_fault(t)
           \/ chat_returns(t)
           \/ clear_session_called(t, "s1")
           \/ conversation_deleted(t)

SpecClear == InitConcurrent /\ [][NextClear]_vars

\* ------------------------------------------------------------------------
\* sessions/cosmos_store.py at its awaits: two requests mutate the record
\* of one session, each store method reading the document, changing its
\* own copy and replacing the document
\* ------------------------------------------------------------------------

StoreMutations == {"add_turn", "set_patient_context", "increment_handoff"}

\* the text a task's add_turn appends
TurnOf(t) == IF t = "t1" THEN "hello" ELSE "again"

\* the copy a mutation has read, as the method changes it before it awaits
\* replace_item
Changed(op, t, session) ==
    LET c == Put(EmptyDict, session.session_id, session)
        id == session.session_id
    IN  IF op = "add_turn" THEN add_turn(c, id, "user", TurnOf(t))[id]
        ELSE IF op = "set_patient_context"
             THEN set_patient_context(c, id, MRN5001, _PATIENTS[MRN5001].name,
                                      MaskPhone(PHONE5001),
                                      _PATIENTS[MRN5001].dob, TRUE)[id]
             ELSE increment_handoff(c, id, "triage", "scheduling")[id]

raceFrame ==
    <<toolVars, _sessions, _workflows, remoteVars, entry, adminVars,
      _current_session_id, requests, sent, issued_in>>

\* session = await self.get_session(session_id)
read_item(t, op, session_id) ==
    /\ pc[t] = "idle"
    /\ runs < MaxRuns + 1
    /\ runs' = runs + 1
    /\ local' = [local EXCEPT ![t] =
                    [op |-> op, session_id |-> session_id,
                     session |-> get_session(container, session_id)]]
    /\ pc' = [pc EXCEPT ![t] =
                 IF get_session(container, session_id) = None
                 THEN "create_item" ELSE "replace_item"]
    /\ UNCHANGED <<raceFrame, container, result, dispatched>>

\* session = await self.create_session(session_id): create_item refuses an
\* id that is there (another request has created it since the read)
create_item(t) ==
    /\ pc[t] = "create_item"
    /\ IF local[t].session_id \in DOMAIN container
       THEN /\ result' = [result EXCEPT ![t] = [error |-> "CosmosResourceExistsError"]]
            /\ pc' = [pc EXCEPT ![t] = "idle"]
            /\ UNCHANGED <<container, local>>
       ELSE /\ container' = create_session(container, local[t].session_id)
            /\ local' = [local EXCEPT ![t] =
                            [@ EXCEPT !.session = NewSession(local[t].session_id)]]
            /\ pc' = [pc EXCEPT ![t] = "replace_item"]
            /\ UNCHANGED result
    /\ UNCHANGED <<raceFrame, runs, dispatched>>

\* return await self.update_session(session): replace_item writes the
\* task's copy over the document, whatever the document has become
replace_item(t) ==
    /\ pc[t] = "replace_item"
    /\ container' = Put(container, local[t].session_id,
                        Changed(local[t].op, t, local[t].session))
    /\ dispatched' = [dispatched EXCEPT ![t] = Append(@, local[t].op)]
    /\ result' = [result EXCEPT ![t] = container'[local[t].session_id]]
    /\ pc' = [pc EXCEPT ![t] = "idle"]
    /\ UNCHANGED <<raceFrame, runs, local>>

NextRace ==
    \E t \in ConcurrentTasks :
        \/ \E op \in StoreMutations : read_item(t, op, "s1")
        \/ create_item(t)
        \/ replace_item(t)

SpecRace == InitConcurrent /\ [][NextRace]_vars

\* ------------------------------------------------------------------------
\* tools/handoff.py: the mocked transfer to a human agent
\* ------------------------------------------------------------------------

_QUEUE_STATS ==
    [general |-> [agents_available |-> 3, avg_wait_time |-> 120],
     scheduling |-> [agents_available |-> 2, avg_wait_time |-> 90],
     billing |-> [agents_available |-> 1, avg_wait_time |-> 180],
     emergency |-> [agents_available |-> 5, avg_wait_time |-> 30]]

\* statuses = ["pending", "in_queue", "connecting", "connected"]
statuses == <<"pending", "in_queue", "connecting", "connected">>

\* statuses.index(status)
index(status) == CHOOSE i \in DOMAIN statuses : statuses[i] = status

\* what _generate_transfer_id draws from: six random characters, which may
\* repeat an id drawn before
GenTransferIds == {"TRX-A1B2C3", "TRX-Z9Y8X7"}

\* the transfers after initiate_human_transfer and what it answers;
\* transfer_id is the id drawn
initiate_human_transfer(transfers, a, transfer_id) ==
    LET queue == IF a.department \in DOMAIN _QUEUE_STATS
                 THEN _QUEUE_STATS[a.department] ELSE _QUEUE_STATS["general"]
        half == queue.avg_wait_time \div 2
        wait_time == IF a.priority = "high"
                     THEN (IF half > 30 THEN half ELSE 30)
                     ELSE queue.avg_wait_time
        transfer_record ==
            [transfer_id |-> transfer_id, department |-> a.department,
             reason |-> a.reason, priority |-> a.priority,
             summary |-> a.conversation_summary, status |-> "pending",
             initiated_at |-> now, estimated_wait_seconds |-> wait_time,
             agents_available |-> queue.agents_available]
    IN  [transfers |-> Put(transfers, transfer_id, transfer_record),
         out |-> [kind |-> "transfer_initiated", transfer_id |-> transfer_id,
                  department |-> a.department, priority |-> a.priority,
                  wait_minutes |-> wait_time \div 60,
                  wait_seconds |-> wait_time % 60,
                  agents_available |-> queue.agents_available]]

\* get_transfer_status moving the record on whatever its status is
get_transfer_status_wraps(transfers, a, progress, position) ==
    IF a.transfer_id \notin DOMAIN transfers
    THEN [transfers |-> transfers,
          out |-> [kind |-> "transfer_not_found", transfer_id |-> a.transfer_id]]
    ELSE LET record == transfers[a.transfer_id]
             current_idx == index(record.status)
             status == IF progress
                       THEN statuses[(current_idx % Len(statuses)) + 1]
                       ELSE record.status
         IN  [transfers |-> Put(transfers, a.transfer_id,
                                [record EXCEPT !.status = status]),
              out |-> [kind |-> "transfer_status", status |-> status,
                       transfer_id |-> a.transfer_id,
                       department |-> record.department,
                       position |-> IF status = "in_queue" THEN position ELSE 0]]

\* get_transfer_status; progress is random.random() > 0.5 and position is
\* random.randint(1, 3)
get_transfer_status(transfers, a, progress, position) ==
    IF a.transfer_id \notin DOMAIN transfers
    THEN [transfers |-> transfers,
          out |-> [kind |-> "transfer_not_found", transfer_id |-> a.transfer_id]]
    ELSE LET record == transfers[a.transfer_id]
             current_idx == index(record.status)
             status == IF current_idx < Len(statuses) /\ progress
                       THEN statuses[current_idx + 1]
                       ELSE record.status
         IN  [transfers |-> Put(transfers, a.transfer_id,
                                [record EXCEPT !.status = status]),
              out |-> [kind |-> "transfer_status", status |-> status,
                       transfer_id |-> a.transfer_id,
                       department |-> record.department,
                       position |-> IF status = "in_queue" THEN position ELSE 0]]

\* a handoff tool returns: nothing but the transfers is involved
HandoffReturns(op, arguments, value) ==
    /\ returned' = [op |-> op, arguments |-> arguments, value |-> value]
    /\ previous' = Brief(returned)
    /\ UNCHANGED <<toolVars, _sessions, storeVars, remoteVars, entry, now,
                   memoryVars, runs, pc, _current_session_id, local, result,
                   wireVars, dispatched, issued_in>>

\* the model asks for a transfer: to a department that has a queue or to one
\* that has none, at either priority
initiate_human_transfer_invoke(department, priority) ==
    \E transfer_id \in GenTransferIds :
        LET a == [reason |-> "caller asks for a person", department |-> department,
                  priority |-> priority, conversation_summary |-> NoText]
            r == initiate_human_transfer(_PENDING_TRANSFERS, a, transfer_id)
        IN  /\ _PENDING_TRANSFERS' = r.transfers
            /\ HandoffReturns("initiate_human_transfer", a, r.out)

\* the model asks how a transfer is going
get_transfer_status_invoke(transfer_id) ==
    \E progress \in BOOLEAN, position \in 1..3 :
        LET a == [transfer_id |-> transfer_id]
            r == get_transfer_status(_PENDING_TRANSFERS, a, progress, position)
        IN  /\ _PENDING_TRANSFERS' = r.transfers
            /\ HandoffReturns("get_transfer_status", a, r.out)

NextHandoff ==
    \/ \E department \in {"billing", "cardiology"}, priority \in {"normal", "high"} :
          initiate_human_transfer_invoke(department, priority)
    \/ \E transfer_id \in GenTransferIds \cup {"TRX-000000"} :
          get_transfer_status_invoke(transfer_id)

SpecHandoff == InitTools /\ [][NextHandoff]_vars

\* ------------------------------------------------------------------------
\* The masked form of a contact string
\* ------------------------------------------------------------------------

\* the longest contact string tried
MaxPhoneLen == 9

\* contact strings around the length where the two ends stop overlapping
Contacts ==
    UNION {[1..n -> {"+", "5"}] : n \in 6..MaxPhoneLen}

\* masked_phone = phone[:5] + "****" + phone[-3:], for a patient whose
\* registered phone is `phone`
masked_phone(phone) ==
    /\ returned' = [op |-> "masked_phone", phone |-> phone,
                    value |-> MaskPhone(phone)]
    /\ previous' = Brief(returned)
    /\ UNCHANGED <<toolVars, _sessions, storeVars, remoteVars, entry, now,
                   memoryVars, _PENDING_TRANSFERS, runs, pc, _current_session_id,
                   local, result, wireVars, dispatched, issued_in>>

\* the two tools that show a contact, and the mask on its own
NextMask ==
    \/ \E phone \in Contacts : masked_phone(phone)
    \/ \E t \in Tasks, call \in {LookupPatient, LookupByPhone, SendOtp} :
          tool_invoke(t, call)

SpecMask == InitTools /\ [][NextMask]_vars

\* ------------------------------------------------------------------------
\* agents/memory.py FoundryMemoryStore: the long-term memory of a patient,
\* kept by a remote service
\* ------------------------------------------------------------------------

\* a remote call answers, fails before the service acted, or fails after it
\* acted (the answer is lost)
Outcomes == {"ok", "fails", "lost"}

\* the memories a scope holds at most
MaxMemories == 2

MemoryTypes == {"user_profile", "chat_summary"}

\* what update is handed: conversations with and without content
Conversations ==
    { <<>>,
      <<[role |-> "user", content |-> NoText]>>,
      <<[role |-> "user", content |-> "hello"]>>,
      <<[role |-> "user", content |-> "hello"],
        [role |-> "assistant", content |-> NoText]>> }

Least(a, b) == IF a <= b THEN a ELSE b

\* __aenter__: the client is made; memory_stores.get tells whether the store
\* is there, and its failure is logged only
aenter(m, outcome) == [_client |-> TRUE, _ready |-> (outcome = "ok")]

\* search with no except clause around the remote call
search_unguarded(m, stores, scope, query, max_results, outcome) ==
    IF ~m._client \/ ~m._ready
    THEN [kind |-> "list", items |-> <<>>]
    ELSE IF outcome # "ok"
         THEN [kind |-> "raised", items |-> <<>>]
         ELSE [kind |-> "list",
               items |-> [i \in 1..Least(max_results, Len(stores[scope])) |->
                            [type |-> stores[scope][i].type,
                             content |-> stores[scope][i].content,
                             score |-> stores[scope][i].score]]]

\* search(scope, query, max_results): what it returns
search(m, stores, scope, query, max_results, outcome) ==
    IF ~m._client \/ ~m._ready
    THEN [kind |-> "list", items |-> <<>>]
    ELSE IF outcome # "ok"
         THEN [kind |-> "list", items |-> <<>>]
         ELSE [kind |-> "list",
               items |-> [i \in 1..Least(max_results, Len(stores[scope])) |->
                            [type |-> stores[scope][i].type,
                             content |-> stores[scope][i].content,
                             score |-> stores[scope][i].score]]]

\* begin_update_memories as the service carries it out: a memory of some
\* type is drawn from the items
update_memories(stores, scope, items, type) ==
    [stores EXCEPT ![scope] =
        Append(@, [type |-> type, content |-> items[Len(items)].content,
                   score |-> 1])]

\* update(scope, messages): the store after it and what it returns
update(m, stores, scope, messages, outcome, type) ==
    IF ~m._client \/ ~m._ready
    THEN [stores |-> stores, out |-> [kind |-> "none"]]
    ELSE LET items == SelectSeq(messages, LAMBDA msg : msg.content # NoText)
         IN  IF items = <<>>
             THEN [stores |-> stores, out |-> [kind |-> "none"]]
             ELSE IF outcome = "ok"
                  THEN [stores |-> update_memories(stores, scope, items, type),
                        out |-> [kind |-> "update_id",
                                 update_id |-> Len(stores[scope]) + 1]]
                  ELSE [stores |-> IF outcome = "lost"
                                   THEN update_memories(stores, scope, items, type)
                                   ELSE stores,
                        out |-> [kind |-> "none"]]

\* a call of the memory store returns: nothing but the memory store and the
\* service behind it is involved
MemoryReturns(op, scope, value) ==
    /\ returned' = [op |-> op, scope |-> scope, value |-> value]
    /\ previous' = Brief(returned)
    /\ UNCHANGED <<toolVars, _sessions, storeVars, remoteVars, entry, now,
                   _PENDING_TRANSFERS, runs, pc, _current_session_id, local,
                   result, wireVars, dispatched, issued_in>>

FoundryMemoryStore_aenter(outcome) ==
    /\ ~_memory._client
    /\ _memory' = aenter(_memory, outcome)
    /\ MemoryReturns("__aenter__", NoText, _memory')
    /\ UNCHANGED memory_stores

FoundryMemoryStore_search(scope, max_results, outcome) ==
    /\ MemoryReturns("search", scope,
                     search(_memory, memory_stores, scope, "recent", max_results,
                            outcome))
    /\ UNCHANGED memoryVars

FoundryMemoryStore_update(scope, messages, outcome, type) ==
    /\ Len(memory_stores[scope]) < MaxMemories
    /\ LET r == update(_memory, memory_stores, scope, messages, outcome, type)
       IN  /\ memory_stores' = r.stores
           /\ MemoryReturns("update", scope, r.out)
    /\ UNCHANGED _memory

NextMemory ==
    \/ \E outcome \in Outcomes : FoundryMemoryStore_aenter(outcome)
    \/ \E scope \in Scopes, outcome \in Outcomes :
          \/ \E max_results \in {1, 10} :
                FoundryMemoryStore_search(scope, max_results, outcome)
          \/ \E messages \in Conversations, type \in MemoryTypes :
                FoundryMemoryStore_update(scope, messages, outcome, type)

SpecMemory == InitStore /\ [][NextMemory]_vars

\* a turn that was started goes on: the event loop resumes the task at each
\* answer of the remote service and of the store, and the service answers
Progress(t, choices, more) ==
    \/ run(t)
    \/ conversation_created(t)
    \/ item_appended(t)
    \/ response_received(t, choices, more)
    \/ exec_tool(t)
    \/ submit_outputs(t)
    \/ chat_returns(t)

SpecLoopFair ==
    /\ SpecLoop
    /\ \A t \in Tasks :
         WF_vars(Progress(t, LoopCalls,
                          IF runs = MaxRuns THEN {<<LookupPatient>>} ELSE {}))

\* ------------------------------------------------------------------------
\* Properties
\* ------------------------------------------------------------------------

Patients == DOMAIN _PATIENTS

\* is_patient_verified(p, S) in the current state
Verified(p, S) == is_patient_verified(World, NoText, p, S)

\* the step is task t executing the next function call of its batch
Executes(t, name) ==
    /\ pc[t] = "executing"
    /\ Len(local[t].outputs) < Len(local[t].response.output)
    /\ Len(local'[t].outputs) = Len(local[t].outputs) + 1
    /\ local[t].response.output[Len(local[t].outputs) + 1].name = name

\* the arguments of the call being executed, and what the tool answered
Args(t) == local[t].response.output[Len(local[t].outputs) + 1].arguments.val

Out(t) == local'[t].outputs[Len(local'[t].outputs)].output

\* the step is a verify_otp call of task t that answers success
VerifySucceeds(t) == Executes(t, "verify_otp") /\ Out(t).kind = "verified"

\* C1: verification is monotonic and session-scoped. No step takes
\* is_patient_verified(p, S) from true to false; a verify_otp that succeeds
\* while S is the current session leaves is_patient_verified(p, S) true; and
\* is_patient_verified(p, S) becomes true only by a verify_otp for p that
\* succeeds while S is the current session, so it stays false in every
\* session where none has.
VerificationMonotonic ==
    [][ /\ \A S \in Sessions, p \in Patients :
              Verified(p, S) => Verified(p, S)'
        /\ \A t \in Tasks, S \in Sessions, p \in Patients :
              /\ VerifySucceeds(t)
              /\ Args(t).patient_mrn = p
              /\ get_session_context(t) = S
              => Verified(p, S)'
        /\ \A S \in Sessions, p \in Patients :
              ~Verified(p, S) /\ Verified(p, S)'
                  => \E t \in Tasks :
                        /\ VerifySucceeds(t)
                        /\ Args(t).patient_mrn = p
                        /\ get_session_context(t) = S
      ]_vars

\* the patient is verified in s1, and a later turn of s2, where no
\* verify_otp succeeded, has executed a tool
VerifiedInOneSession ==
    /\ Verified(MRN5001, "s1")
    /\ ~Verified(MRN5001, "s2")
    /\ local["t1"].session = "s2"
    /\ Len(dispatched["t1"]) > 0

\* the patient a protected operation acts on
Concerned(t, name) ==
    IF name = "cancel_appointment"
    THEN AptGet(_APPOINTMENTS, Args(t).appointment_id).patient_mrn
    ELSE Args(t).patient_mrn

\* C2: get_appointment_history, book_appointment and cancel_appointment
\* return the history, book or cancel only when is_patient_verified holds
\* for the patient concerned in the session of the turn.
ProtectedOperationsGated ==
    [][ \A t \in Tasks :
          \A name \in {"get_appointment_history", "book_appointment",
                       "cancel_appointment"} :
              Executes(t, name) /\ Out(t).kind \in {"history", "booked", "cancelled"}
                  => Verified(Concerned(t, name), local[t].session)
      ]_vars

\* C3: verify_otp for p succeeds in a session only if the outstanding code
\* for p was issued by a send_otp of that same session.
OtpScopedToSession ==
    [][ \A t \in Tasks :
          VerifySucceeds(t)
              => /\ Args(t).patient_mrn \in DOMAIN issued_in
                 /\ issued_in[Args(t).patient_mrn] = local[t].session
      ]_vars

\* C4: a code is used once. A verify_otp that succeeds for p leaves no
\* outstanding code for p; while there is none, verify_otp for p answers
\* "no active OTP" and changes nothing; and a code for p becomes outstanding
\* only by a send_otp for p.
OtpSingleUse ==
    [][ \A t \in Tasks :
          /\ VerifySucceeds(t)
                => Args(t).patient_mrn \notin DOMAIN _ACTIVE_OTPS'
          /\ Executes(t, "verify_otp")
             /\ Args(t).patient_mrn \notin DOMAIN _ACTIVE_OTPS
                => /\ Out(t).kind = "no_active_otp"
                   /\ UNCHANGED toolVars
          /\ \A p \in Patients :
                p \notin DOMAIN _ACTIVE_OTPS /\ p \in DOMAIN _ACTIVE_OTPS'
                    => \E u \in Tasks :
                          Executes(u, "send_otp") /\ Args(u).patient_mrn = p
      ]_vars

\* one batch verified the patient and had the same code refused right after
CodeRefusedAfterUse ==
    \E t \in Tasks :
        /\ pc[t] = "executing"
        /\ Len(local[t].outputs) = 2
        /\ local[t].response.output[1].arguments
               = local[t].response.output[2].arguments
        /\ local[t].outputs[1].output.kind = "verified"
        /\ local[t].outputs[2].output.kind = "no_active_otp"

\* C5: while a code is outstanding for p, a verify_otp with a code that
\* does not match answers "invalid OTP" and leaves the outstanding codes and
\* the verified sets as they were; a verify_otp with the matching code
\* succeeds and makes p verified in the session of the turn.
WrongCodeThenCorrectCode ==
    [][ \A t \in Tasks, S \in Sessions, p \in DOMAIN _ACTIVE_OTPS :
          /\ Executes(t, "verify_otp")
          /\ Args(t).patient_mrn = p
          /\ local[t].session = S
          => IF strip(Args(t).otp_code) # _ACTIVE_OTPS[p]
             THEN /\ Out(t).kind = "invalid_otp"
                  /\ UNCHANGED <<_ACTIVE_OTPS, _VERIFIED>>
             ELSE /\ Out(t).kind = "verified"
                  /\ Verified(p, S)'
      ]_vars

\* C6: whenever verify_otp answers success for p in a turn of session S,
\* by the HTTP route or by AgentFactory.run called directly, p is in the
\* verified set of S and is the most recently verified patient of S.
SuccessIsRecorded ==
    [][ \A t \in Tasks :
          VerifySucceeds(t)
              => /\ local[t].session \in DOMAIN _VERIFIED'
                 /\ Args(t).patient_mrn \in _VERIFIED'[local[t].session]
                 /\ local[t].session \in DOMAIN _LAST_VERIFIED'
                 /\ _LAST_VERIFIED'[local[t].session]
                        = get_patient_data(Args(t).patient_mrn)
      ]_vars

\* C7: a run sends at most MAX_TOOL_ITERATIONS response requests, the
\* first one counted.
RequestsWithinCap ==
    \A t \in Tasks : requests[t] <= MAX_TOOL_ITERATIONS

\* C7, as the loop counts: a run starts at most MAX_TOOL_ITERATIONS batches
\* and sends at most one response request more than that, the first request
\* and one follow-up for each batch.
RequestsWithinCapAndOne ==
    \A t \in Tasks :
        /\ local[t].iterations <= MAX_TOOL_ITERATIONS
        /\ requests[t] <= MAX_TOOL_ITERATIONS + 1

\* a run has sent its first request and a follow-up for every iteration
AllIterationsUsed ==
    \E t \in Tasks :
        /\ local[t].iterations = MAX_TOOL_ITERATIONS
        /\ requests[t] = MAX_TOOL_ITERATIONS + 1

\* the run of task t is over
Returned(t) == pc[t] \in {"returned", "idle"}

\* C8: run() terminates whatever the remote model answers, and the response
\* that arrives when no iteration is left is returned as it is, function
\* calls pending or not, with no error raised.
RunTerminates ==
    /\ [][ \A t \in Tasks :
             /\ pc[t] = "awaiting"
             /\ local[t].iterations = MAX_TOOL_ITERATIONS
             /\ local'[t].response # local[t].response
             => /\ Returned(t)'
                /\ result'[t] =
                      [response |-> local'[t].response.output_text,
                       conversation_id |-> local[t].session,
                       tools_called |-> local[t].tools_called]
         ]_vars
    /\ \A t \in Tasks : (pc[t] = "entered") ~> Returned(t)

\* a run came back with the text of a response that still asked for a tool
ReturnedAtCap ==
    \E t \in Tasks :
        /\ Returned(t)
        /\ local[t].iterations = MAX_TOOL_ITERATIONS
        /\ local[t].response # None
        /\ local[t].response.output # <<>>
        /\ result[t] # None
        /\ "response" \in DOMAIN result[t]
        /\ result[t].response = local[t].response.output_text

\* the run of task t came back with a result
HasResult(t) ==
    /\ result[t] # None
    /\ "tools_called" \in DOMAIN result[t]

\* C9: the tools_called of a result is the sequence of the names
\* _execute_tool was called with during the run, in that order, repeated
\* names kept, names of no tool included.
ToolsCalledIsDispatchTrace ==
    \A t \in Tasks :
        HasResult(t) => result[t].tools_called = dispatched[t]

\* a result lists a tool twice, around a name that is no tool
RepeatedToolReported ==
    \E t \in Tasks :
        /\ HasResult(t)
        /\ Len(result[t].tools_called) >= 3
        /\ result[t].tools_called[1] = result[t].tools_called[3]
        /\ result[t].tools_called[2] = "no_such_tool"

\* the names of the last n calls dispatched by task t
LastDispatched(t, n) ==
    SubSeq(dispatched[t], Len(dispatched[t]) - n + 1, Len(dispatched[t]))

\* C10: no partial batch. While a batch is executed nothing is sent; the
\* one request that follows it is chained from the response that asked for
\* the batch and carries one output for each of its calls, in the order of
\* the calls and under their call_id, all of them executed in that order.
WholeBatchAnswered ==
    \A t \in Tasks :
        /\ pc[t] = "executing" => requests[t] = local[t].iterations
        /\ pc[t] = "awaiting" => requests[t] = local[t].iterations + 1
        /\ pc[t] = "awaiting" /\ local[t].response # None
            => LET calls == local[t].response.output
               IN  /\ sent[t].op = "responses.create"
                   /\ sent[t].previous_response_id = local[t].response.id
                   /\ Len(sent[t].input) = Len(calls)
                   /\ \A i \in DOMAIN calls :
                         /\ sent[t].input[i].type = "function_call_output"
                         /\ sent[t].input[i].call_id = calls[i].call_id
                   /\ Len(dispatched[t]) >= Len(calls)
                   /\ LastDispatched(t, Len(calls))
                         = [i \in DOMAIN calls |-> calls[i].name]

\* the outputs of a batch of two calls are on their way
BatchOfTwoAnswered ==
    \E t \in Tasks :
        /\ pc[t] = "awaiting"
        /\ local[t].response # None
        /\ Len(local[t].response.output) = 2
        /\ Len(sent[t].input) = 2

\* the user message as conversations take it
UserItem(message) == [type |-> "message", role |-> "user", content |-> message]

\* the step ends the run of task t with a result
RunCompletes(t) ==
    /\ pc[t] = "awaiting"
    /\ Returned(t)'
    /\ HasResult(t)'

\* the step is a clear_session that drops the linkage of session S
Clears(S) ==
    /\ S \in DOMAIN _sessions
    /\ S \notin DOMAIN _sessions'
    /\ \E t \in Tasks : pc[t] = "idle" /\ pc'[t] = "idle"

\* C11: when a run for S completes, the continuation token recorded for S
\* is the id of the last response the run obtained; the token of S then
\* stays as it is until a run for S completes again (or clear_session drops
\* the session); and a run that finds S known asks for its first response
\* chained from the token recorded for S.
TokenChained ==
    [][ /\ \A t \in Tasks :
              /\ RunCompletes(t)
                    => /\ local[t].session \in DOMAIN _sessions'
                       /\ _sessions'[local[t].session].last_response_id
                              = local'[t].response.id
              /\ pc[t] = "appending" /\ pc'[t] = "awaiting"
                    => /\ sent'[t].op = "responses.create"
                       /\ sent'[t].previous_response_id
                              = _sessions[local[t].session].last_response_id
        /\ \A S \in Sessions :
              /\ S \in DOMAIN _sessions
              /\ \/ S \notin DOMAIN _sessions'
                 \/ _sessions'[S].last_response_id # _sessions[S].last_response_id
              => \/ \E t \in Tasks : RunCompletes(t) /\ local[t].session = S
                 \/ Clears(S)
      ]_vars

\* the first request of a later turn is on its way, chained from the token
\* the turn before recorded
SecondTurnChained ==
    \E t \in Tasks :
        /\ pc[t] = "awaiting"
        /\ local[t].response = None
        /\ sent[t].previous_response_id # None
        /\ sent[t].previous_response_id
              = _sessions[local[t].session].last_response_id

\* C12: over the turns of one session a conversation is created only while
\* the session has no linkage, seeded with the message of that turn, and
\* linked to the session; a turn that finds the linkage creates nothing and
\* appends its message to the linked conversation; and the linkage, once
\* set, stays the same for as long as no clear_session drops it.
ConversationCreatedOnce ==
    [][ /\ \A t \in Tasks :
              /\ pc[t] = "creating" /\ pc'[t] = "awaiting"
                    => /\ local[t].session \notin DOMAIN _sessions
                       /\ local[t].session \in DOMAIN _sessions'
                       /\ conversations_created' = conversations_created + 1
                       /\ _sessions'[local[t].session].conv_id
                              \notin DOMAIN conversations
                       /\ conversations'[_sessions'[local[t].session].conv_id]
                              = <<UserItem(local[t].message)>>
              /\ pc[t] = "entered" /\ local[t].session \in DOMAIN _sessions
                    => pc'[t] = "appending"
              /\ pc[t] = "appending" /\ pc'[t] = "awaiting"
                    => /\ local[t].conv_id = _sessions[local[t].session].conv_id
                       /\ local[t].conv_id \in DOMAIN conversations
                       /\ conversations'[local[t].conv_id]
                              = Append(conversations[local[t].conv_id],
                                       UserItem(local[t].message))
              /\ conversations_created' # conversations_created
                    => \E u \in Tasks : pc[u] = "creating" /\ pc'[u] = "awaiting"
        /\ \A S \in Sessions :
              S \in DOMAIN _sessions
                  => \/ /\ S \in DOMAIN _sessions'
                        /\ _sessions'[S].conv_id = _sessions[S].conv_id
                     \/ Clears(S)
      ]_vars

\* the only conversation created holds the messages of two turns in order
TwoTurnsOneConversation ==
    /\ conversations_created = 1
    /\ \E c \in DOMAIN conversations :
          /\ Len(conversations[c]) = 2
          /\ conversations[c][1].content = "hello"
          /\ conversations[c][2].content = "again"

\* the function call task t is about to execute
NextCall(t) == local[t].response.output[Len(local[t].outputs) + 1]

\* what _execute_tool does with that call in the current state
Execution(t) ==
    _execute_tool(World, get_session_context(t), NextCall(t).name,
                  NextCall(t).arguments, CHOOSE rnd \in GenAptIds : TRUE)

\* the step goes on with the batch of task t: nothing was raised into run()
BatchGoesOn(t) ==
    /\ pc'[t] = "executing"
    /\ result'[t] = result[t]

\* C13: a call that names no registered tool is answered with the
\* structured error "Unknown tool: <name>"; no handler is invoked, the
\* tools' state is as before, and the batch goes on.
UnknownToolAnswered ==
    [][ \A t \in Tasks :
          /\ pc[t] = "executing"
          /\ Len(local'[t].outputs) = Len(local[t].outputs) + 1
          /\ NextCall(t).name \notin _tool_lookup
          => /\ Out(t) = ErrorPayload(<<"Unknown tool", NextCall(t).name>>)
             /\ ~Execution(t).invoked
             /\ UNCHANGED toolVars
             /\ BatchGoesOn(t)
      ]_vars

\* a batch had the error for an unknown name as its first output and went
\* on to its second call
UnknownToolThenNext ==
    \E t \in Tasks :
        /\ pc[t] = "executing"
        /\ Len(local[t].outputs) = 2
        /\ local[t].response.output[1].name = "no_such_tool"
        /\ local[t].outputs[1].output.kind = "error"
        /\ local[t].outputs[2].output.kind = "slots"

\* json.loads rejects the arguments of the call
PayloadMalformed(call) == call.arguments.kind = "malformed"

\* the handler of the call, given its arguments, raises in state w
HandlerRaises(call, w, sid) ==
    /\ call.name \in _tool_lookup
    /\ call.arguments.kind = "object"
    /\ DOMAIN call.arguments.val = ToolParams(call.name)
    /\ invoke(call.name, w, sid, call.arguments.val,
              CHOOSE rnd \in GenAptIds : TRUE).out.kind = "raised"

\* C14: a failing call does not abort the loop. When the payload is
\* malformed or the handler raises, the call's output is the structured
\* error with the failure's message and the batch goes on; and the request
\* that follows a batch carries one output for each of its calls, all of
\* them dispatched, whatever failed.
FailureDoesNotAbort ==
    [][ \A t \in Tasks :
          /\ /\ pc[t] = "executing"
             /\ Len(local'[t].outputs) = Len(local[t].outputs) + 1
             => /\ PayloadMalformed(NextCall(t))
                   => /\ Out(t) = ErrorPayload(<<"JSONDecodeError">>)
                      /\ BatchGoesOn(t)
                /\ HandlerRaises(NextCall(t), World, get_session_context(t))
                   => /\ Out(t).kind = "error"
                      /\ Out(t).error
                            = invoke(NextCall(t).name, World,
                                     get_session_context(t),
                                     NextCall(t).arguments.val,
                                     CHOOSE rnd \in GenAptIds : TRUE).out.message
                      /\ BatchGoesOn(t)
          /\ /\ pc[t] = "executing"
             /\ pc'[t] # "executing"
             => /\ pc'[t] = "awaiting"
                /\ Len(sent'[t].input) = Len(local[t].response.output)
                /\ \A i \in DOMAIN local[t].response.output :
                      sent'[t].input[i].call_id
                          = local[t].response.output[i].call_id
                /\ Len(dispatched[t]) >= Len(local[t].response.output)
                /\ LastDispatched(t, Len(local[t].response.output))
                      = [i \in DOMAIN local[t].response.output |->
                            local[t].response.output[i].name]
      ]_vars

\* the outputs of a batch are on their way: the error of a handler that
\* raised, then the answer of the call after it
ErrorAndAnswerSubmitted ==
    \E t \in Tasks :
        /\ pc[t] = "awaiting"
        /\ local[t].response # None
        /\ Len(sent[t].input) = 2
        /\ sent[t].input[1].output = ErrorPayload(<<"ValueError", 20260230>>)
        /\ sent[t].input[2].output.kind = "slots"

\* task t is inside AgentFactory.run
InRun(t) == pc[t] \in {"entered", "creating", "appending", "awaiting", "executing"}

\* C15: at no time are two run() invocations for the same session id in
\* progress, two concurrent chat requests for that id included.
OneRunPerSession ==
    \A t, u \in ConcurrentTasks :
        t # u /\ InRun(t) /\ InRun(u) => local[t].session # local[u].session

\* C16: with chat requests in flight at once, the indicator a request reads
\* while its run is in progress is its own session id, and a verify_otp
\* executed for a request records the patient under that request's session
\* and under no other.
IndicatorIsolated ==
    [][ \A t \in ConcurrentTasks :
          /\ InRun(t) => get_session_context(t) = local[t].session
          /\ VerifySucceeds(t)
                => \A S \in Sessions, p \in Patients :
                      ~Verified(p, S) /\ Verified(p, S)'
                          => S = local[t].session
      ]_vars

\* the request for s2 had the patient verified while the request for s1,
\* which had executed a tool itself, was waiting for the remote model
VerifiedWhileOtherWaits ==
    /\ pc["t1"] = "awaiting"
    /\ Len(dispatched["t1"]) > 0
    /\ InRun("t2")
    /\ local["t2"].session = "s2"
    /\ Verified(MRN5001, "s2")
    /\ ~Verified(MRN5001, "s1")

\* the step is task t executing a function call
ExecutesCall(t) ==
    /\ pc[t] = "executing"
    /\ Len(local'[t].outputs) = Len(local[t].outputs) + 1

\* C17: every tool handler executed during a run() for session S reads S
\* from get_session_context(), whichever entry point started the run.
IndicatorSetBeforeTools ==
    [][ \A t \in Tasks :
          ExecutesCall(t) => get_session_context(t) = local[t].session
      ]_vars

\* C18: once a chat request has finished, with an answer or with an error,
\* the indicator of its context no longer holds its session id.
IndicatorClearedAtEnd ==
    \A t \in Tasks :
        entry = "http" /\ pc[t] = "idle" /\ local[t].session # NoText
            => get_session_context(t) # local[t].session

\* C19: get_or_create is idempotent. A call leaves the session in the
\* store and returns the stored record; on a session that exists it changes
\* nothing in the store (no second creation, the history as it was); and a
\* call that follows a call for the same id, whose record has not expired
\* meanwhile, returns the record the first call returned.
GetOrCreateIdempotent ==
    [][ \A id \in Sessions :
          SessionManager_get_or_create(id)
              => /\ id \in DOMAIN container'
                 /\ returned'.value = container'[id]
                 /\ id \in DOMAIN container
                       => /\ container' = container
                          /\ returned'.value = container[id]
                 /\ ( /\ returned.op = "get_or_create"
                      /\ returned.session_id = id
                      /\ now - returned.value.updated_at < returned.value.ttl )
                       => /\ returned'.value = returned.value
                          /\ container' = container
      ]_vars

\* get_or_create was called twice in a row for s1, a session with a turn in
\* its history, and returned the stored record
EnsuredTwice ==
    /\ previous.op = "get_or_create"
    /\ previous.session_id = "s1"
    /\ returned.op = "get_or_create"
    /\ returned.session_id = "s1"
    /\ "s1" \in DOMAIN container
    /\ returned.value = container["s1"]
    /\ Len(returned.value.conversation_history) > 0

\* a record as create_session makes it at the current time
Fresh(session, id) ==
    /\ session.session_id = id
    /\ session.created_at = now
    /\ session.conversation_history = <<>>
    /\ session.patient_mrn = None
    /\ session.patient_context = None
    /\ session.patient_verified = FALSE
    /\ session.metadata.handoff_count = 0

\* C20: delete_session removes the session; while it is absent get_session
\* returns None for it and list_active_sessions does not list it; it stays
\* absent until a call for that id creates it; and get_or_create then makes
\* a new record with empty history, no patient, patient_verified false and
\* handoff_count zero.
DeletedSessionIsGone ==
    [][ \A id \in Sessions :
          /\ SessionManager_delete_session(id)
                => /\ id \notin DOMAIN container'
                   /\ id \notin DOMAIN _workflows'
                   /\ returned'.value = (id \in DOMAIN container)
          /\ id \notin DOMAIN container
                => /\ SessionManager_get_session(id) => returned'.value = None
                   /\ SessionManager_list_active_sessions
                         => \A i \in DOMAIN returned'.value :
                               returned'.value[i].session_id # id
                   /\ SessionManager_get_or_create(id)
                         => /\ Fresh(returned'.value, id)
                            /\ container'[id] = returned'.value
                   /\ id \in DOMAIN container'
                         => /\ returned'.session_id = id
                            /\ returned'.op \in {"get_or_create", "add_turn",
                                                 "set_patient_context",
                                                 "record_handoff"}
      ]_vars

\* s1 was deleted while it existed, and the get_or_create that followed
\* returned a new record, the other session being still there with its turn
RecreatedAfterDelete ==
    /\ previous = [op |-> "delete_session", session_id |-> "s1", value |-> TRUE]
    /\ returned.op = "get_or_create"
    /\ returned.session_id = "s1"
    /\ Fresh(returned.value, "s1")
    /\ now > 0
    /\ "s2" \in DOMAIN container
    /\ Len(container["s2"].conversation_history) > 0

\* C21: when DELETE /session/{id} has answered ended = true, the store
\* holds no record of the session: get_session finds none, its history is
\* empty and the session list does not name it.
EndedSessionRemoved ==
    [][ \A id \in Sessions :
          end_session(id)
              => /\ get_session(container', id) = None
                 /\ \A items \in list_active_sessions(container') :
                       \A i \in DOMAIN items : items[i].session_id # id
      ]_vars

\* C22: a session created again by get_or_create right after its deletion
\* is unverified at every layer: is_patient_verified(p, S) is false for
\* every patient p.
RecreatedSessionUnverified ==
    [][ \A id \in Sessions :
          ( /\ returned = [op |-> "delete_session", session_id |-> id,
                           value |-> TRUE]
            /\ SessionManager_get_or_create(id) )
              => /\ returned'.value.patient_verified = FALSE
                 /\ \A p \in Patients : ~Verified(p, id)'
      ]_vars

\* C29: the conversation_id in the result of run() is the conversation
\* token the remote service gave for the session, the one stored as the
\* session's linkage.
ConversationIdPassedThrough ==
    [][ \A t \in Tasks :
          RunCompletes(t)
              => result'[t].conversation_id = _sessions'[local[t].session].conv_id
      ]_vars

IsPrefix(a, b) == Len(a) <= Len(b) /\ SubSeq(b, 1, Len(a)) = a

\* the step is one of the store's mutations of session id
StoreMutation(id) ==
    \/ SessionManager_add_turn(id, "user", "hello")
    \/ SessionManager_set_patient_context(id, MRN5001, TRUE)
    \/ SessionManager_mark_patient_verified(id)
    \/ SessionManager_record_handoff(id, "triage", "scheduling")

\* C23: turns are append-only and ordered. A mutation of the store leaves
\* every stored history as a prefix of the history after it, add_turn adds
\* exactly its turn at the end, and the turns of a history are in the order
\* of their timestamps.
TurnsAppendOnly ==
    [][ \A id \in Sessions :
          /\ StoreMutation(id)
                => \A other \in Sessions :
                      LET old == get_conversation_history(container, other)
                          new == get_conversation_history(container', other)
                      IN  /\ IsPrefix(old, new)
                          /\ \A i, j \in DOMAIN new :
                                i < j => new[i].timestamp <= new[j].timestamp
          /\ SessionManager_add_turn(id, "user", "hello")
                => get_conversation_history(container', id)
                      = Append(get_conversation_history(container, id),
                               [role |-> "user", text |-> "hello",
                                timestamp |-> now])
      ]_vars

\* a turn was added to s1 after a handoff recorded at an earlier time
AppendedAfterHandoff ==
    /\ returned.op = "add_turn"
    /\ returned.session_id = "s1"
    /\ "s1" \in DOMAIN container
    /\ LET h == container["s1"].conversation_history
       IN  /\ Len(h) = 2
           /\ h[1].role = "system"
           /\ h[2].role = "user"
           /\ h[1].timestamp < h[2].timestamp

\* C24: a mutation of the store for a session whose record is not there
\* (it expired) succeeds and leaves a record of the session.
MissingSessionTolerated ==
    [][ \A id \in Sessions :
          id \notin DOMAIN container /\ StoreMutation(id)
              => id \in DOMAIN container'
      ]_vars

\* the turns of a history that are tagged as handoffs
Handoffs(h) ==
    Cardinality({i \in DOMAIN h :
                    IF "event" \in DOMAIN h[i] THEN h[i].event = "handoff" ELSE FALSE})

\* metadata.handoff_count, 0 for a session that is not there
HandoffCount(c, id) ==
    IF id \in DOMAIN c THEN c[id].metadata.handoff_count ELSE 0

\* C30: handoff_count is the number of handoff turns in the history.
\* record_handoff adds one to the count and appends one system turn tagged
\* handoff; no other call on a session that stays in the store changes the
\* count or the number of handoff turns.
HandoffsCounted ==
    [][ \A id \in Sessions :
          LET old == get_conversation_history(container, id)
              new == get_conversation_history(container', id)
          IN  /\ HandoffCount(container', id) = Handoffs(new)
              /\ SessionManager_record_handoff(id, "triage", "scheduling")
                    => /\ HandoffCount(container', id) = HandoffCount(container, id) + 1
                       /\ Len(new) = Len(old) + 1
                       /\ IsPrefix(old, new)
                       /\ new[Len(new)].role = "system"
                       /\ Handoffs(new) = Handoffs(old) + 1
              /\ ( /\ now' = now
                   /\ id \in DOMAIN container'
                   /\ ~SessionManager_record_handoff(id, "triage", "scheduling") )
                    => /\ HandoffCount(container', id) = HandoffCount(container, id)
                       /\ Handoffs(new) = Handoffs(old)
      ]_vars

\* a handoff was recorded for s1 after a user turn
HandoffAfterTurn ==
    /\ returned.op = "record_handoff"
    /\ returned.session_id = "s1"
    /\ "s1" \in DOMAIN container
    /\ container["s1"].metadata.handoff_count = 1
    /\ Len(container["s1"].conversation_history) = 2
    /\ container["s1"].conversation_history[1].role = "user"

\* C26: an appointment that is cancelled stays cancelled, with the date and
\* time it had, whatever call comes next.
CancelledStaysCancelled ==
    [][ \A i \in DOMAIN _APPOINTMENTS :
          _APPOINTMENTS[i].status = "cancelled"
              => LET after == AptGet(_APPOINTMENTS', _APPOINTMENTS[i].id)
                 IN  /\ after # None
                     /\ after.status = "cancelled"
                     /\ after.date = _APPOINTMENTS[i].date
                     /\ after.time = _APPOINTMENTS[i].time
      ]_vars

\* the call is send_otp for a patient that is not in the directory, or
\* verify_otp for a patient with no outstanding code
IdentityFailure(call) ==
    \/ call.name = "send_otp" /\ get_patient_data(call.arguments.val.patient_mrn) = None
    \/ call.name = "verify_otp" /\ call.arguments.val.patient_mrn \notin DOMAIN _ACTIVE_OTPS

\* C27: send_otp for an unknown patient and verify_otp with no outstanding
\* code return a text (the handler does not raise) and leave the outstanding
\* codes, the verified sets and the last-verified markers as they were.
IdentityFailuresAreResults ==
    [][ \A t \in Tasks, call \in ToolCalls :
          IdentityFailure(call) /\ tool_invoke(t, call)
              => /\ returned'.value.kind \in {"patient_not_found", "no_active_otp"}
                 /\ UNCHANGED <<_ACTIVE_OTPS, _VERIFIED, _LAST_VERIFIED>>
      ]_vars

\* send_otp was refused for the unknown patient while a code was
\* outstanding for another patient and a patient was verified in s1
UnknownPatientRefused ==
    /\ returned.op = "send_otp"
    /\ returned.value.kind = "patient_not_found"
    /\ MRN5001 \in DOMAIN _ACTIVE_OTPS
    /\ Verified(MRN5001, "s1")

\* the patients whose verify_otp succeeded in the last batch of calls of
\* task t's run
VerifiedInBatch(t) ==
    {local[t].outputs[i].output.mrn :
        i \in {j \in DOMAIN local[t].outputs :
                  local[t].outputs[j].output.kind = "verified"}}

\* the patient fields of the store record of session id
PatientFields(c, id) ==
    <<c[id].patient_mrn, c[id].patient_verified, c[id].patient_context>>

\* C25 as stated: when a chat request returns, the record of its session is
\* verified with the MRN of every patient whose verify_otp succeeded in the
\* request.
EveryVerifiedIdentityPersisted ==
    [][ \A t \in Tasks :
          chat_returns(t)
              => \A p \in VerifiedInBatch(t) :
                    /\ container'[local[t].session].patient_verified = TRUE
                    /\ container'[local[t].session].patient_mrn = p
      ]_vars

\* C25: a verify_otp that succeeds in a chat request of S makes its patient
\* the most-recently-verified marker of S; the marker stays as it is until
\* another verification in S succeeds or a request of S returns; the request
\* that returns consumes the marker and leaves the record of S verified with
\* the marker's MRN, the patient verified last; a request that returns with
\* no marker leaves the patient fields of the record alone; and a marker
\* exists only for a session in which that patient was verified.
LastVerifiedIdentityPersisted ==
    [][ /\ \A t \in Tasks :
            /\ VerifySucceeds(t)
                  => /\ local[t].session \in DOMAIN _LAST_VERIFIED'
                     /\ _LAST_VERIFIED'[local[t].session] =
                            get_patient_data(Args(t).patient_mrn)
            /\ chat_returns(t)
                  => /\ local[t].session \notin DOMAIN _LAST_VERIFIED'
                     /\ IF local[t].session \in DOMAIN _LAST_VERIFIED
                        THEN /\ container'[local[t].session].patient_verified = TRUE
                             /\ container'[local[t].session].patient_mrn =
                                    _LAST_VERIFIED[local[t].session].mrn
                        ELSE PatientFields(container', local[t].session) =
                                 PatientFields(container, local[t].session)
        /\ \A id \in DOMAIN _LAST_VERIFIED :
            \/ /\ id \in DOMAIN _LAST_VERIFIED'
               /\ _LAST_VERIFIED'[id] = _LAST_VERIFIED[id]
            \/ \E t \in Tasks :
                  local[t].session = id /\ (VerifySucceeds(t) \/ chat_returns(t))
        /\ \A id \in DOMAIN _LAST_VERIFIED' :
            /\ id \in DOMAIN _VERIFIED'
            /\ _LAST_VERIFIED'[id].mrn \in _VERIFIED'[id]
      ]_vars

\* two patients were verified in s1, the second of them in the request that
\* returned last: the record carries the second, and the marker is gone
LastVerifiedIdentityStored ==
    /\ Quiet
    /\ "s1" \in DOMAIN _VERIFIED
    /\ _VERIFIED["s1"] = {MRN5001, MRN5050}
    /\ "s1" \notin DOMAIN _LAST_VERIFIED
    /\ "s1" \in DOMAIN container
    /\ container["s1"].patient_verified = TRUE
    /\ container["s1"].patient_mrn = MRN5050

\* C28: search answers the empty list and update answers no result, and
\* neither raises, whenever the store was not found ready at start-up or the
\* remote call fails; and no call of either raises in any case.
MemoryFailuresAreQuiet ==
    [][ \A scope \in Scopes, outcome \in Outcomes :
          /\ \A max_results \in {1, 10} :
                FoundryMemoryStore_search(scope, max_results, outcome)
                    => /\ returned'.value.kind = "list"
                       /\ (~_memory._ready \/ outcome # "ok")
                             => returned'.value.items = <<>>
          /\ \A messages \in Conversations, type \in MemoryTypes :
                FoundryMemoryStore_update(scope, messages, outcome, type)
                    => /\ returned'.value.kind \in {"none", "update_id"}
                       /\ (~_memory._ready \/ outcome # "ok")
                             => returned'.value.kind = "none"
      ]_vars

\* a search returned the empty list while the store was ready and the
\* service held a memory for the patient: the remote call had failed
SearchFailedQuietly ==
    /\ returned.op = "search"
    /\ returned.value.kind = "list"
    /\ returned.value.items = <<>>
    /\ _memory._ready
    /\ memory_stores[returned.scope] # <<>>

\* C31: lookup_patient, for an identifier that matches a patient by MRN or
\* by phone and for one that matches none, leaves the outstanding codes,
\* every session's verified set and the last-verified markers as they were.
LookupChangesNoVerification ==
    [][ \A t \in Tasks, call \in ToolCalls :
          call.name = "lookup_patient" /\ tool_invoke(t, call)
              => UNCHANGED <<_ACTIVE_OTPS, _VERIFIED, _LAST_VERIFIED>>
      ]_vars

\* a patient was looked up and found while a code was outstanding and a
\* patient was verified in s1
LookedUpWhileVerified ==
    /\ returned.op = "lookup_patient"
    /\ returned.value.kind = "patient_found"
    /\ MRN5001 \in DOMAIN _ACTIVE_OTPS
    /\ Verified(MRN5001, "s1")
    /\ "s1" \in DOMAIN _LAST_VERIFIED

\* sub occurs in s as a run of consecutive characters
Contains(s, sub) ==
    \E i \in 0..(Len(s) - Len(sub)) : SubSeq(s, i + 1, i + Len(sub)) = sub

\* masked is the first 5 characters of phone, four asterisks and the last 3
\* characters of phone, and phone does not occur in it
Masked(phone, masked) ==
    /\ Len(masked) = 12
    /\ \A i \in 1..5 : masked[i] = phone[i]
    /\ \A i \in 6..9 : masked[i] = "*"
    /\ \A i \in 1..3 : masked[9 + i] = phone[Len(phone) - 3 + i]
    /\ ~Contains(masked, phone)

\* C32: for every contact string of 8 characters or more the masked form is
\* its first 5 characters, a placeholder of four asterisks and its last 3
\* characters; what lookup_patient and send_otp show of a patient's phone
\* is that form, and the phone itself is not in it.
MaskKeepsEndsOnly ==
    /\ returned.op = "masked_phone" /\ Len(returned.phone) >= 8
          => Masked(returned.phone, returned.value)
    /\ returned.op = "lookup_patient" /\ returned.value.kind = "patient_found"
          => Masked(_PATIENTS[returned.value.mrn].phone, returned.value.phone_masked)
    /\ returned.op = "send_otp" /\ returned.value.kind = "otp_sent"
          => Masked(PHONE5001, returned.value.phone_masked)

\* a contact of exactly 8 characters was masked
ShortestContactMasked ==
    /\ returned.op = "masked_phone"
    /\ Len(returned.phone) = 8
    /\ Len(returned.value) = 12

\* the step is verify_otp called for a patient who has a code outstanding
VerifiesOutstanding(t, call) ==
    /\ call.name = "verify_otp"
    /\ call.arguments.val.patient_mrn \in DOMAIN _ACTIVE_OTPS
    /\ tool_invoke(t, call)

\* x is c with nothing but blanks before and after it
Padded(x, c) ==
    \E a \in 0..Len(x) :
        /\ a + Len(c) <= Len(x)
        /\ SubSeq(x, a + 1, a + Len(c)) = c
        /\ \A i \in 1..a : IsSpace(x[i])
        /\ \A i \in (a + Len(c) + 1)..Len(x) : IsSpace(x[i])

\* C34 as stated: with a code outstanding for the patient, verify_otp
\* succeeds exactly when the supplied code equals the outstanding one
\* character for character.
VerifyComparesExactly ==
    [][ \A t \in Tasks, call \in ToolCalls :
          VerifiesOutstanding(t, call)
              => ( returned'.value.kind = "verified"
                   <=> call.arguments.val.otp_code =
                          _ACTIVE_OTPS[call.arguments.val.patient_mrn] )
      ]_vars

\* C34: with a code outstanding for the patient, verify_otp succeeds exactly
\* when the supplied code, without the blanks before and after it, equals
\* the outstanding one character for character; a blank inside it, or any
\* other difference, makes it fail.
VerifyComparesStripped ==
    [][ \A t \in Tasks, call \in ToolCalls :
          VerifiesOutstanding(t, call)
              => ( returned'.value.kind = "verified"
                   <=> Padded(call.arguments.val.otp_code,
                              _ACTIVE_OTPS[call.arguments.val.patient_mrn]) )
      ]_vars

\* the code was accepted with a blank before and after it
PaddedCodeAccepted ==
    /\ returned.op = "verify_otp"
    /\ returned.arguments.otp_code = OTP_PADDED
    /\ returned.value.kind = "verified"

\* the step is the return of a run whose loop used its last iteration and
\* whose last response still asks for tools
CapReached(t) ==
    /\ RunCompletes(t)
    /\ local'[t].iterations = MAX_TOOL_ITERATIONS
    /\ local'[t].response.output # <<>>

\* C33: a run that ends at the cap with function calls still requested
\* tells so: its result is not the one a normal completion with the same
\* text and the same tools returns.
CapReachedIsSignalled ==
    [][ \A t \in Tasks :
          CapReached(t)
              => result'[t] # [response |-> local'[t].response.output_text,
                               conversation_id |-> local[t].session,
                               tools_called |-> local'[t].tools_called]
      ]_vars

\* the mutations named op that have returned
Completed(op) ==
    {<<t, i>> \in ConcurrentTasks \X (1..(MaxRuns + 1)) :
        i \in DOMAIN dispatched[t] /\ dispatched[t][i] = op}

\* C35: when no mutation of s1 is in flight, the record of s1 has a turn
\* for every add_turn and increment_handoff that returned, counts every
\* increment_handoff that returned, and holds the patient if a
\* set_patient_context returned: no update is lost.
NoUpdateLost ==
    (\A t \in ConcurrentTasks : pc[t] = "idle") /\ "s1" \in DOMAIN container
        => /\ Len(container["s1"].conversation_history) =
                 Cardinality(Completed("add_turn"))
                 + Cardinality(Completed("increment_handoff"))
           /\ container["s1"].metadata.handoff_count =
                 Cardinality(Completed("increment_handoff"))
           /\ Completed("set_patient_context") # {}
                 => container["s1"].patient_mrn = MRN5001

\* C36: a run that takes the existing-session path chains from a response
\* id: the token it read for the session is the id of a response the
\* service has given, never None.
ExistingPathHasToken ==
    \A t \in Tasks :
        pc[t] = "appending"
            => /\ local[t].last_response_id # None
               /\ \E n \in 1..responses_created :
                     local[t].last_response_id = <<"resp", n>>

\* C37: when a run returns, the response whose id it records as the
\* continuation token of the session requests no function call: every
\* call the run was asked for has been executed and answered.
TokenHasNoPendingCalls ==
    [][ \A t \in Tasks :
          RunCompletes(t)
              => /\ local'[t].response.output = <<>>
                 /\ _sessions'[local[t].session].last_response_id
                        = local'[t].response.id
      ]_vars

\* the run of task t has the conversation it works on
HasConversation(t) == pc[t] \in {"appending", "awaiting", "executing"}

\* C38: with two runs in flight, a conversation is created for a session
\* only while the session has no linkage, so that the linkage of a session
\* is never replaced by a second conversation's; and two runs in flight for
\* one session use the same conversation.
OneConversationPerSession ==
    [][ /\ \A t \in ConcurrentTasks :
              pc[t] = "creating" /\ pc'[t] = "awaiting"
                  => local[t].session \notin DOMAIN _sessions
        /\ \A t, u \in ConcurrentTasks :
              /\ HasConversation(t)' /\ HasConversation(u)'
              /\ local'[t].session = local'[u].session
              => local'[t].conv_id = local'[u].conv_id
      ]_vars

\* C39: a clear_session that returns leaves the session without an entry,
\* whether the remote deletion worked or not; and neither a clear_session
\* nor a run that another clear_session has interleaved with ends in a
\* KeyError on the session's entry.
ClearSessionIsSafe ==
    [][ \A t \in ConcurrentTasks :
          /\ conversation_deleted(t)
                => /\ local[t].session \notin DOMAIN _sessions'
                   /\ "error" \notin DOMAIN result'[t]
          /\ pc[t] = "awaiting" /\ pc'[t] \in {"idle", "returned"}
                => \/ "error" \notin DOMAIN result'[t]
                   \/ result'[t].error # "KeyError"
      ]_vars

\* the place of a transfer's status on the way to connected
Rank(transfers, id) == index(transfers[id].status)

\* the step is get_transfer_status called for transfer id
StatusAsked(id) ==
    /\ returned'.op = "get_transfer_status"
    /\ returned'.arguments.transfer_id = id
    /\ get_transfer_status_invoke(id)

\* the step is initiate_human_transfer drawing id: the record under id
\* after it is the record of the new transfer
TransferInitiated(id) ==
    /\ returned'.op = "initiate_human_transfer"
    /\ returned'.value.transfer_id = id

====
